---- MODULE Spec2Model ----
(***************************************************************************)
(* libredefender: the concurrent scan pipeline of scan::run (walker ->     *)
(* bounded file queue -> worker pool -> result channel -> aggregator ->    *)
(* state file), modelled from src/src/scan.rs and src/src/db.rs.           *)
(***************************************************************************)
EXTENDS Integers, Sequences, FiniteSets, Bags, TLC

\* ------------------------------------------------------------------ bounds
\* number of processing units the host may report (num_cpus::get)
MaxWorkers == 2
\* scan runs per behaviour
MaxRuns == 2
\* capacity of the file queue: crossbeam_channel::bounded::<DirEntry>(128)
FsQueueCap == 128
\* days of scheduler activity per behaviour
MaxDays == 1
\* suspensions of the host during the sleeps of one call of robust_sleep
MaxSuspends == 2

None == <<"None">>
Some(x) == <<"Some", x>>
IsSome(o) == o # None
Unwrap(o) == o[2]

\* ------------------------------------------------------ the file system
\* Nodes are tagged pairs; nTop is the top directory.  A name is a sequence of
\* one-character strings, a path a sequence of names below the top.
NoNode == <<"none", 0>>
nTop == <<"top", 0>>
nR == <<"r", 0>>
nSymlink == <<"sl", 0>>
nSocket == <<"so", 0>>
nFifo == <<"ff", 0>>
nBlock == <<"bd", 0>>
nChar == <<"cd", 0>>
nA == <<"a", 0>>
nHidden == <<"h", 0>>
nU == <<"u", 0>>
nD == <<"d", 0>>
nB == <<"b", 0>>
nL == <<"l", 0>>
nBig == <<"big", 0>>
\* the big directory holds more files than the file queue has room for
BigFiles == FsQueueCap + 2
BigNodes == {<<"f", i>> : i \in 1..BigFiles}
SmallNodes == {nR, nSymlink, nSocket, nFifo, nBlock, nChar, nA, nHidden, nU, nD, nB,
               nL, nBig}
Nodes == SmallNodes \cup BigNodes

Digit(k) == <<"0", "1", "2", "3", "4", "5", "6", "7", "8", "9">>[k + 1]

Name(n) ==
    CASE n = nR -> <<"r">>
      [] n = nSymlink -> <<"s", "l">>
      [] n = nSocket -> <<"s", "o">>
      [] n = nFifo -> <<"f", "f">>
      [] n = nBlock -> <<"b", "d">>
      [] n = nChar -> <<"c", "d">>
      [] n = nA -> <<"a">>
      [] n = nHidden -> <<".", "h">>
      [] n = nU -> <<"u">>
      [] n = nD -> <<"d">>
      [] n = nB -> <<"b">>
      [] n = nL -> <<"l">>
      [] n = nBig -> <<"b", "i", "g">>
      [] OTHER -> <<"f", Digit(n[2] \div 100), Digit((n[2] \div 10) % 10),
                         Digit(n[2] % 10)>>

\* what lstat reports for the node
Kind(n) ==
    CASE n \in {nTop, nR, nU, nD, nBig} -> "dir"
      [] n \in {nSymlink, nL} -> "symlink"
      [] n = nSocket -> "socket"
      [] n = nFifo -> "fifo"
      [] n = nBlock -> "block"
      [] n = nChar -> "char"
      [] OTHER -> "file"

Parent(n) ==
    CASE n \in {nR, nL, nBig} -> nTop
      [] n = nB -> nD
      [] n \in BigNodes -> nBig
      [] OTHER -> nR

\* where a symbolic link points
Target(n) == IF n = nL THEN nR ELSE nA

\* md.len()
Size(n) == IF n \in {nB, nHidden} THEN 2 ELSE 1

\* an entry whose metadata cannot be read
MetadataFails(n) == n = nHidden

\* a directory whose read_dir fails (permission denied)
ReadDirFails(n) == n = nU

FileNodes == {n \in Nodes : Kind(n) = "file"}

\* the directory's entries, in the order read_dir yields them
Children(n) ==
    IF n = nBig THEN [i \in 1..BigFiles |-> <<"f", i>>]
    ELSE IF n = nR THEN <<nSymlink, nSocket, nFifo, nBlock, nChar, nA, nHidden, nU, nD>>
    ELSE IF n = nD THEN <<nB>>
    ELSE IF n = nTop THEN <<nR, nL, nBig>>
    ELSE <<>>

Digits == {"0", "1", "2", "3", "4", "5", "6", "7", "8", "9"}
DigitValue(c) == CHOOSE k \in 0..9 : Digit(k) = c

\* the entry of directory dir that has this name
Lookup(dir, name) ==
    IF dir = nBig
    THEN IF Len(name) = 4 /\ name[1] = "f" /\ {name[2], name[3], name[4]} \subseteq Digits
         THEN LET i == 100 * DigitValue(name[2]) + 10 * DigitValue(name[3])
                       + DigitValue(name[4])
              IN IF i \in 1..BigFiles THEN <<"f", i>> ELSE NoNode
         ELSE NoNode
    ELSE LET hits == {i \in 1..Len(Children(dir)) : Name(Children(dir)[i]) = name}
         IN IF hits = {} THEN NoNode ELSE Children(dir)[CHOOSE i \in hits : TRUE]

Follow(n) == IF n # NoNode /\ Kind(n) = "symlink" THEN Target(n) ELSE n

RECURSIVE ResolveFrom(_, _, _)
\* the node a path names, starting at directory cur; the links in the path are
\* followed, the last component's only when followLast
ResolveFrom(cur, path, followLast) ==
    IF path = <<>> THEN cur
    ELSE LET rest(c) ==
                 IF c = NoNode THEN NoNode
                 ELSE IF Len(path) = 1 THEN (IF followLast THEN Follow(c) ELSE c)
                 ELSE IF Kind(Follow(c)) # "dir" THEN NoNode
                 ELSE ResolveFrom(Follow(c), Tail(path), followLast)
         IN CHOOSE n \in {rest(c) : c \in {Lookup(cur, Head(path))}} : TRUE

RECURSIVE CanonPath(_)
CanonPath(n) == IF n = nTop THEN <<>> ELSE Append(CanonPath(Parent(n)), Name(n))

\* fs::canonicalize: every link resolved; Err when a component is missing or the
\* file system refuses (fs.canonFail)
Canonicalize(fs, path) ==
    CHOOSE r \in {IF n = NoNode \/ n \in fs.canonFail THEN None ELSE Some(CanonPath(n)) :
                     n \in {ResolveFrom(nTop, path, TRUE)}} : TRUE

\* ------------------------------------------------------------ patterns.rs
\* a byte of a file name that is not part of any valid UTF-8 sequence
BadByte == "<ff>"
\* OsStr::to_str: None when the name is not valid UTF-8
to_str(s) == IF \E i \in DOMAIN s : s[i] = BadByte THEN None ELSE Some(s)
\* Path::to_str: None when a component is not valid UTF-8
path_to_str(path) ==
    IF \E i \in DOMAIN path : to_str(path[i]) = None THEN None ELSE Some(path)

\* A pattern is a literal path, or a literal directory followed by "/*".
\* glob::Pattern::matches_path: path.to_str().map_or(false, |s| self.matches(s))
PatternMatches(pat, path) ==
    IF path_to_str(path) = None THEN FALSE
    ELSE IF pat.star
    THEN Len(path) > Len(pat.lit) /\ SubSeq(path, 1, Len(pat.lit)) = pat.lit
    ELSE path = pat.lit

\* ------------------------------------------- scan.rs: parse_database_age
\* memchr::memchr(c, buf): the index (from 0) of the first c in buf
memchr(c, buf) ==
    IF \E i \in DOMAIN buf : buf[i] = c
    THEN Some((CHOOSE i \in DOMAIN buf :
                  buf[i] = c /\ \A j \in 1..(i - 1) : buf[j] # c) - 1)
    ELSE None
\* &buf[idx..] and &buf[..idx]
SliceFrom(buf, idx) == SubSeq(buf, idx + 1, Len(buf))
SliceTo(buf, idx) == SubSeq(buf, 1, idx)

\* for i in 0..8 { idx = memchr(b':', buf)?; buf = &buf[idx + 1..]; }: the
\* buffer after the loop, or the number of the field that was not found
RECURSIVE SkipFields(_, _)
SkipFields(buf, i) ==
    IF i = 8 THEN Some(buf)
    ELSE IF memchr(":", buf) = None THEN None
    ELSE SkipFields(SliceFrom(buf, Unwrap(memchr(":", buf)) + 1), i + 1)

\* atoi::atoi: the digits at the start of the slice are read and the parser
\* stops at the first byte that is not a digit; None when there is no digit
RECURSIVE AtoiFrom(_, _, _)
AtoiFrom(buf, used, n) ==
    IF buf # <<>> /\ Head(buf) \in Digits
    THEN AtoiFrom(Tail(buf), used + 1, 10 * n + DigitValue(Head(buf)))
    ELSE IF used = 0 THEN None ELSE Some(n)
atoi(buf) == AtoiFrom(buf, 0, 0)

AgeOk(num) == <<"Ok", num>>
AgeErr(msg) == <<"Err", msg>>
\* Utc.timestamp(num, 0): the instant num seconds after the epoch
parse_database_age(header) ==
    IF SkipFields(header, 0) = None THEN AgeErr("Failed to select field number")
    ELSE LET buf == Unwrap(SkipFields(header, 0))
         IN IF memchr(" ", buf) = None
            THEN AgeErr("Failed to remove remaining data from timestamp")
            ELSE LET field == SliceTo(buf, Unwrap(memchr(" ", buf)))
                 IN IF atoi(field) = None
                    THEN AgeErr("Failed to parse timestamp as number")
                    ELSE AgeOk(Unwrap(atoi(field)))

\* --------------------------------------------------------------- scan.rs
\* entry.to_str().map_or(false, |s| s != "." && s != ".." && s.starts_with('.'))
is_hidden(s) ==
    IF to_str(s) = None THEN FALSE
    ELSE LET str == Unwrap(to_str(s))
         IN str # <<".">> /\ str # <<".", ".">> /\ Len(str) > 0 /\ str[1] = "."

file_name(e) == e.path[Len(e.path)]

\* variant: size >= skip_larger_than
matches_at_ceiling(config, e) ==
    IF config.skip_hidden /\ is_hidden(file_name(e)) THEN FALSE
    ELSE IF \E exclude \in config.excludes : PatternMatches(exclude, e.path) THEN FALSE
    ELSE IF /\ IsSome(config.skip_larger_than)
            /\ Kind(e.node) = "file"
            /\ ~MetadataFails(e.node)
            /\ Size(e.node) >= Unwrap(config.skip_larger_than)
         THEN FALSE
    ELSE TRUE
\* variant: the hidden and exclude rules are for files only
matches_dirs_pass(config, e) ==
    IF Kind(e.node) = "dir" THEN TRUE
    ELSE IF config.skip_hidden /\ is_hidden(file_name(e)) THEN FALSE
    ELSE IF \E exclude \in config.excludes : PatternMatches(exclude, e.path) THEN FALSE
    ELSE IF /\ IsSome(config.skip_larger_than)
            /\ Kind(e.node) = "file"
            /\ ~MetadataFails(e.node)
            /\ Size(e.node) > Unwrap(config.skip_larger_than)
         THEN FALSE
    ELSE TRUE

matches(config, e) ==
    IF config.skip_hidden /\ is_hidden(file_name(e)) THEN FALSE
    ELSE IF \E exclude \in config.excludes : PatternMatches(exclude, e.path) THEN FALSE
    ELSE IF /\ IsSome(config.skip_larger_than)
            /\ Kind(e.node) = "file"
            /\ ~MetadataFails(e.node)
            /\ Size(e.node) > Unwrap(config.skip_larger_than)
         THEN FALSE
    ELSE TRUE

\* variant: without the is_symlink branch
should_be_skipped_nolink(ft) ==
    IF ft = "dir" THEN Some("Traversing directory")
    ELSE IF ft = "socket" THEN Some("Skipping unix socket")
    ELSE IF ft = "fifo" THEN Some("Skipping fifo")
    ELSE IF ft = "block" THEN Some("Skipping block device")
    ELSE IF ft = "char" THEN Some("Skipping char device")
    ELSE None

should_be_skipped(ft) ==
    IF ft = "dir" THEN Some("Traversing directory")
    ELSE IF ft = "symlink" THEN Some("Skipping symlink")
    ELSE IF ft = "socket" THEN Some("Skipping unix socket")
    ELSE IF ft = "fifo" THEN Some("Skipping fifo")
    ELSE IF ft = "block" THEN Some("Skipping block device")
    ELSE IF ft = "char" THEN Some("Skipping char device")
    ELSE None

\* an item of the WalkDir iterator: Ok(DirEntry) or Err
WalkOk(path, node, depth) == [ok |-> TRUE, path |-> path, node |-> node, depth |-> depth]
WalkErr(path, depth) == [ok |-> FALSE, path |-> path, node |-> NoNode, depth |-> depth]

\* WalkDir::new(path): the root itself is the first item
WalkRoot(path) ==
    LET n == ResolveFrom(nTop, path, FALSE)
    IN IF n = NoNode THEN WalkErr(path, 0) ELSE WalkOk(path, n, 0)

\* the items WalkDir yields below a directory entry it descends into: a root
\* that is a link to a directory is followed, any other link is not
WalkChildren(e) ==
    LET dir == IF e.depth = 0 THEN Follow(e.node) ELSE e.node
    IN IF Kind(dir) # "dir" THEN <<>>
       ELSE IF ReadDirFails(dir) THEN <<WalkErr(e.path, e.depth + 1)>>
       ELSE [i \in 1..Len(Children(dir)) |->
                WalkOk(Append(e.path, Name(Children(dir)[i])), Children(dir)[i],
                       e.depth + 1)]

\* the verdict of the engine for the file at path (the path's links followed)
Clean == <<"Clean", "">>
Whitelisted == <<"Whitelisted", "">>
Virus(name) == <<"Virus", name>>
EngineError == <<"Error", "">>
EngineScan(fs, path) ==
    LET verdict(n) ==
            IF n = NoNode \/ Kind(n) # "file" THEN EngineError
            ELSE IF n \in DOMAIN fs.verdict THEN fs.verdict[n]
            ELSE Clean
    IN CHOOSE v \in {verdict(n) : n \in {ResolveFrom(nTop, path, TRUE)}} : TRUE

\* ----------------------------------------------------------------- db.rs
EmptyThreats == [p \in {} |-> <<>>]
\* Data::default()
DefaultData ==
    [last_scan |-> None, threats |-> EmptyThreats, signature_count |-> 0,
     signatures_age |-> None]
\* the state file: missing, unparsable, or a serialized Data
FileMissing == [state |-> "missing", data |-> DefaultData]
FileCorrupt == [state |-> "corrupt", data |-> DefaultData]
FileOf(d) == [state |-> "ok", data |-> d]

\* Database::load (once the data directory is known): the parsed file, or the
\* default when the file is missing or does not parse
DatabaseLoad(f) == IF f.state = "ok" THEN f.data ELSE DefaultData

\* Database::store: the outcomes of create_dir_all and fs::write
StoreOutcomes == {"ok", "fail_before_write", "fail_in_write"}
DatabaseStore(f, d, outcome) ==
    CASE outcome = "ok" -> FileOf(d)
      [] outcome = "fail_before_write" -> f
      [] OTHER -> FileCorrupt

\* variant: insert(path, vec![name]) instead of entry().or_default().push()
ThreatsInsert(t, path, name) ==
    [p \in DOMAIN t \cup {path} |-> IF p = path THEN <<name>> ELSE t[p]]

\* data.threats.entry(path).or_default().push(name)
ThreatsPush(t, path, name) ==
    [p \in DOMAIN t \cup {path} |->
        IF p = path THEN (IF p \in DOMAIN t THEN Append(t[p], name) ELSE <<name>>)
        ELSE t[p]]

\* ------------------------------------------------------------- the state
VARIABLES
    env,          \* the host: num_cpus, home directory
    args,         \* args::Scan: the paths given on the command line
    cfg,          \* the loaded configuration (scan section)
    fsys,         \* the file system's contents: engine verdict per file, ...
    file,         \* the state file
    data,         \* run's in-memory Data (db.data_mut())
    runPc,        \* scan::run: "idle", "spawning", "draining", "returned"
    runResult,    \* what the last run returned: "none", "ok", "err_...", "killed"
    run,          \* number of runs started
    spawned,      \* workers spawned so far by the spawn loop
    workerPc,     \* per worker: "unspawned", "idle", "scanning", "exited"
    workerEntry,  \* per worker: the path it is scanning
    walkerPc,     \* walker thread: "unspawned", "walking", "done"
    walkRoots,    \* root paths the walker has not started yet
    walkStack,    \* WalkDir's pending items of the current root
    fsQueue,      \* file queue (bounded channel of DirEntry)
    results,      \* result channel (unbounded) of <<path, name>>
    sentLog,      \* bag of the paths the walker put on the file queue, this run
    scanLog,      \* bag of the <<path, verdict>> of the engine calls that returned, this run
    emitLog,      \* bag of the <<path, name>> the workers sent, this run
    storeLog,     \* number of writes of the state file, this run
    history,      \* per completed run: the file system and the stored threats
    schedPc,      \* schedule::run: "off" (no scheduler in this process), "top",
                  \* "battery", "policy", "db", "delay", "skip_sleep",
                  \* "delay_sleep", "scan", "scanning", "returned", "panicked"
    clock,        \* the wall clock, in seconds (Utc::now(), Local::now())
    now,          \* schedule::run's now, read at the top of the cycle
    schedConf,    \* the schedule section of the configuration file
    batteries,    \* the state of each power source of the host
    schedDb,      \* the result of the cycle's Database::load
    sleepReq,     \* robust_sleep's argument
    target,       \* robust_sleep's target_time
    stampAt,      \* the instant each last_scan stamp stands for
    asked,        \* robust_sleep: the duration of its latest thread::sleep
    suspends,     \* suspensions of the host still to come in this behaviour
    returnedAt,   \* the scheduler's latest scan::run: when it returned, and what
    call,         \* a function called on its own: its name and arguments
    ret,          \* what that call returned
    procs,        \* processes that load, change and store the state: per
                  \* process its position and its Database.data
    disk,         \* the state file's length, and who wrote it last
    inf           \* the infections command: its position, flags, Database.data,
                  \* the threats still to visit, the deleted paths, the files

\* robust_sleep's bookkeeping, and the latest return of scan::run
sleepVars == <<asked, suspends, returnedAt>>
\* the processes of other commands
cmdVars == <<procs, disk, inf>>
\* a function called on its own; no other command runs beside it
callVars == <<call, ret, cmdVars>>
schedVars ==
    <<schedPc, clock, now, schedConf, batteries, schedDb, sleepReq, target, stampAt,
      asked, suspends, returnedAt>>

vars ==
    <<env, args, cfg, fsys, file, data, runPc, runResult, run, spawned, workerPc,
      workerEntry, walkerPc, walkRoots, walkStack, fsQueue, results, sentLog,
      scanLog, emitLog, storeLog, history, schedPc, clock, now, schedConf,
      batteries, schedDb, sleepReq, target, stampAt, asked, suspends, returnedAt,
      call, ret, procs, disk, inf>>

Workers == 1..(MaxWorkers + 1)
NoEntry == <<>>

\* senders and receivers of the two channels that are still alive
LiveWorkers == {w \in Workers : workerPc[w] \in {"idle", "scanning"}}
ResultsSenders == (IF runPc = "spawning" THEN 1 ELSE 0) + Cardinality(LiveWorkers)
\* variant: run keeps a clone of fs_tx until it returns
FsSendersKept ==
    IF runPc \in {"spawning", "draining"} \/ walkerPc = "walking" THEN 1 ELSE 0
FsSenders ==
    IF runPc = "spawning" \/ walkerPc = "walking" THEN 1 ELSE 0
FsReceivers ==
    (IF runPc \in {"spawning", "draining"} THEN 1 ELSE 0) + Cardinality(LiveWorkers)

\* args.paths, else config.scan.paths, else the home directory
SelectPaths(a, c, e) ==
    IF a.paths # <<>> THEN Some(a.paths)
    ELSE IF c.paths # <<>> THEN Some(c.paths)
    ELSE IF IsSome(e.home) THEN Some(<<Unwrap(e.home)>>)
    ELSE None

\* config.scan.concurrency.unwrap_or_else(num_cpus::get)
Cpus(c, e) == IF IsSome(c.concurrency) THEN Unwrap(c.concurrency) ELSE e.num_cpus

\* variant: for _ in 0..=cpus
SpawnLoopInclusive(cpus) == cpus + 1
\* for _ in 0..cpus
SpawnLoopEnd(cpus) == cpus

\* ------------------------------------------------------------ schedule.rs
\* chrono::Duration::try_hours(h), in seconds
Hours(h) == h * 3600
\* the increment of robust_sleep: chrono::Duration::try_seconds(600)
SleepChunk == 600
\* let interval = chrono::Duration::try_hours(24)
IntervalHours == 24
interval == Hours(IntervalHours)

\* the scheduler is started on this day; the clock stops MaxDays days later
FirstDay == Hours(48)
MaxClock == FirstDay + Hours(24) + Hours(24 * MaxDays)

\* dt.time(): the seconds since local midnight (the local zone has no offset
\* and no daylight saving here)
TimeOfDay(dt) == dt % Hours(24)
\* Local.with_ymd_and_hms(dt.year(), dt.month(), dt.day(), h, m, s).earliest()
OnDayOf(dt, tod) == (dt - TimeOfDay(dt)) + tod

\* PreferedHours::until_next_start
until_next_start(ph, dt) ==
    IF ph.start <= TimeOfDay(dt) /\ (ph.end > TimeOfDay(dt) \/ ph.end < ph.start)
    THEN 0
    ELSE IF TimeOfDay(dt) < ph.start
    THEN OnDayOf(dt, ph.start) - dt
    ELSE (OnDayOf(dt, ph.start) + Hours(24)) - dt

\* variant: self.end >= t
until_next_end_inclusive(ph, dt) ==
    IF ph.end >= TimeOfDay(dt)
    THEN OnDayOf(dt, ph.end) - dt
    ELSE (OnDayOf(dt, ph.end) + Hours(24)) - dt
\* PreferedHours::until_next_end
until_next_end(ph, dt) ==
    IF ph.end > TimeOfDay(dt)
    THEN OnDayOf(dt, ph.end) - dt
    ELSE (OnDayOf(dt, ph.end) + Hours(24)) - dt

\* rng.gen_range(0..span): the draws followed here; none when the range is
\* empty (gen_range panics)
JitterChoices(span) == {j \in {0, span \div 2, span - 1} : 0 <= j /\ j < span}

\* variant: duration_since_last_scan >= interval, and no subtraction of the
\* elapsed time
SleepChoicesWholeInterval(lastScan, conf, dt) ==
    IF lastScan = None THEN {0}
    ELSE IF dt - Unwrap(lastScan) >= interval THEN {0}
    ELSE IF conf.preferred_hours = None THEN {interval}
    ELSE {until_next_start(Unwrap(conf.preferred_hours), dt) + jitter :
            jitter \in JitterChoices(until_next_end(Unwrap(conf.preferred_hours), dt)
                                     - until_next_start(Unwrap(conf.preferred_hours), dt))}
\* lines 241-265: the values sleep can take; lastScan is the instant of
\* data.last_scan, if any.  The empty set stands for the panic of gen_range.
SleepChoices(lastScan, conf, dt) ==
    IF lastScan = None THEN {0}
    ELSE IF dt - Unwrap(lastScan) > interval THEN {0}
    ELSE IF conf.preferred_hours = None THEN {interval - (dt - Unwrap(lastScan))}
    ELSE {until_next_start(Unwrap(conf.preferred_hours), dt) + jitter :
            jitter \in JitterChoices(until_next_end(Unwrap(conf.preferred_hours), dt)
                                     - until_next_start(Unwrap(conf.preferred_hours), dt))}

\* variant: the closure answers state == Discharging, without the accumulator
RECURSIVE FoldLastDischarging(_, _)
FoldLastDischarging(discharging, bs) ==
    IF bs = <<>> THEN discharging
    ELSE FoldLastDischarging(Head(bs) = "Discharging", Tail(bs))
\* lines 194-204: batteries.iter().fold(false, |discharging, battery| ...)
RECURSIVE FoldDischarging(_, _)
FoldDischarging(discharging, bs) ==
    IF bs = <<>> THEN discharging
    ELSE FoldDischarging(discharging \/ Head(bs) = "Discharging", Tail(bs))

\* Database::path and Database::load: Err only when the data directory is not
\* found; a missing or unparsable file gives the default
DbErr(msg) == <<"Err", msg>>
DbOk(d) == <<"Ok", d>>
\* variant: load_from_existing(path)? in Database::load
DatabaseLoadStrict(dirFound, f) ==
    IF ~dirFound THEN DbErr("Failed to find data directory")
    ELSE IF f.state = "corrupt" THEN DbErr("Failed to read database")
    ELSE DbOk(DatabaseLoad(f))
DatabaseLoadResult(dirFound, f) ==
    IF ~dirFound THEN DbErr("Failed to find data directory")
    ELSE DbOk(DatabaseLoad(f))

\* no stamp made yet
NoStamps == [r \in {} |-> 0]

\* no Database::load made in this cycle yet
NotLoaded == [dir_found |-> TRUE, result |-> <<"NotLoaded">>]

\* -------------------------------------------------------- initial states
pR == <<Name(nR)>>
pLD == <<Name(nL), Name(nD)>>
pRD == <<Name(nR), Name(nD)>>
pRDB == Append(pRD, Name(nB))
pBig == <<Name(nBig)>>

\* what the signature directory holds when it loads
EngineDb == [signature_count |-> 7, signatures_age |-> Some(0)]

\* file systems: the engine's verdict per regular file, and the files whose
\* canonicalization the file system refuses
FsInfected ==
    [verdict |-> (nA :> Virus("X")) @@ (nHidden :> Virus("Y")) @@ (nB :> Virus("X")),
     canonFail |-> {}]
FsMixed ==
    [verdict |-> (nA :> Clean) @@ (nHidden :> Whitelisted) @@ (nB :> Virus("Y")),
     canonFail |-> {nB}]
FsError ==
    [verdict |-> (nA :> EngineError) @@ (nHidden :> Virus("X")) @@ (nB :> Clean),
     canonFail |-> {}]
FsClean ==
    [verdict |-> (nA :> Clean) @@ (nHidden :> Clean) @@ (nB :> Clean),
     canonFail |-> {}]

\* the values the configuration's concurrency can hold
ConcurrencyValues == {None} \cup {Some(k) : k \in 1..MaxWorkers}

ThreadsReset ==
    /\ spawned = 0
    /\ workerPc = [w \in Workers |-> "unspawned"]
    /\ workerEntry = [w \in Workers |-> NoEntry]
    /\ walkerPc = "unspawned"
    /\ walkRoots = <<>>
    /\ walkStack = <<>>
    /\ fsQueue = <<>>
    /\ results = <<>>
    /\ sentLog = EmptyBag
    /\ scanLog = EmptyBag
    /\ emitLog = EmptyBag
    /\ storeLog = 0

InitCommon ==
    /\ env = [num_cpus |-> MaxWorkers, home |-> Some(pR)]
    /\ file = FileMissing
    /\ data = DefaultData
    /\ runPc = "idle"
    /\ runResult = "none"
    /\ run = 0
    /\ history = <<>>
    /\ ThreadsReset

\* a process that runs the scan command: no scheduler
SchedulerOff ==
    /\ schedPc = "off"
    /\ clock = 0
    /\ now = 0
    /\ schedConf = [skip_on_battery |-> FALSE, automatic_scans |-> None,
                    preferred_hours |-> None]
    /\ batteries = <<>>
    /\ schedDb = NotLoaded
    /\ sleepReq = 0
    /\ target = 0
    /\ stampAt = NoStamps
    /\ asked = 0
    /\ suspends = 0
    /\ returnedAt = None

\* no function is called on its own
\* no other command of the program runs
NoCommands ==
    /\ procs = <<>>
    /\ disk = [len |-> 0, last |-> 0, overlap |-> FALSE]
    /\ inf = [pc |-> "off"]
NoCall == call = <<"none">> /\ ret = <<"none">> /\ NoCommands

\* a small tree with every entry type, under every filter setting
InitSmall ==
    /\ args \in {[paths |-> <<>>], [paths |-> <<pLD, pR>>], [paths |-> <<pRDB>>]}
    /\ cfg \in [paths : {<<>>},
                skip_hidden : BOOLEAN,
                excludes : {{}, {[lit |-> pRD, star |-> FALSE]}},
                skip_larger_than : {None, Some(1)},
                concurrency : ConcurrencyValues]
    /\ fsys \in {FsInfected, FsMixed, FsError}

\* a flat directory with more files than the file queue holds
InitBig ==
    /\ args = [paths |-> <<>>]
    /\ cfg = [paths |-> <<pBig>>, skip_hidden |-> FALSE, excludes |-> {},
              skip_larger_than |-> None, concurrency |-> Some(1)]
    /\ fsys = FsError

Init == InitCommon /\ SchedulerOff /\ NoCall /\ (InitSmall \/ InitBig)

\* runs per behaviour: one over the big directory, MaxRuns otherwise
RunLimit == IF cfg.paths = <<pBig>> THEN 1 ELSE MaxRuns

\* ---------------------------------------------------------- scan::run
\* variant: without data.threats.clear()
KeepThreats(d) == d
\* lines 222-223: data.threats.clear()
ClearThreats(d) == [d EXCEPT !.threats = EmptyThreats]

\* variant: the engine is loaded inside the workers, its failure is reported
\* but the run goes on
RunSetupLateEngine(outcome, f, paths) ==
    CASE outcome = "config_err" ->
           [data |-> DefaultData, pc |-> "returned", result |-> "err_config"]
      [] outcome = "db_err" ->
           [data |-> DefaultData, pc |-> "returned", result |-> "err_db"]
      [] outcome \in {"engine_err", "ok"} /\ paths = None ->
           [data |-> DatabaseLoad(f), pc |-> "returned", result |-> "err_home"]
      [] outcome = "engine_err" /\ paths # None ->
           [data |-> ClearThreats(DatabaseLoad(f)), pc |-> "spawning",
            result |-> "err_engine"]
      [] OTHER ->
           [data |-> ClearThreats(DatabaseLoad(f)), pc |-> "spawning",
            result |-> "none"]

\* lines 205-229, by what fails: how far the run gets, what it holds in memory
\* and what it returns.  Every failure returns before a thread is spawned.
RunSetup(outcome, f, paths) ==
    CASE outcome = "config_err" ->
           [data |-> DefaultData, pc |-> "returned", result |-> "err_config"]
      [] outcome = "db_err" ->
           [data |-> DefaultData, pc |-> "returned", result |-> "err_db"]
      [] outcome \in {"engine_err", "ok"} /\ paths = None ->
           [data |-> DatabaseLoad(f), pc |-> "returned", result |-> "err_home"]
      [] outcome = "engine_err" /\ paths # None ->
           [data |-> ClearThreats(DatabaseLoad(f)), pc |-> "returned",
            result |-> "err_engine"]
      [] OTHER ->
           [data |-> ClearThreats(DatabaseLoad(f)), pc |-> "spawning",
            result |-> "none"]

\* lines 205-229: load the configuration and the state, choose the paths, clear
\* the threats, create the channels, load the engine
RunStart(outcome) ==
    /\ runPc \in {"idle", "returned"}
    /\ run < RunLimit
    /\ run' = run + 1
    /\ spawned' = 0
    /\ workerPc' = [w \in Workers |-> "unspawned"]
    /\ workerEntry' = [w \in Workers |-> NoEntry]
    /\ walkerPc' = "unspawned"
    /\ walkRoots' = <<>>
    /\ walkStack' = <<>>
    /\ fsQueue' = <<>>
    /\ results' = <<>>
    /\ sentLog' = EmptyBag
    /\ scanLog' = EmptyBag
    /\ emitLog' = EmptyBag
    /\ storeLog' = 0
    /\ LET r == RunSetup(outcome, file, SelectPaths(args, cfg, env))
       IN /\ data' = r.data
          /\ runPc' = r.pc
          /\ runResult' = r.result
    /\ UNCHANGED <<env, args, cfg, fsys, file, history>>

\* scan::run called from the command line
RunBegin(outcome) == RunStart(outcome) /\ UNCHANGED <<schedVars, callVars>>

\* lines 234-246: one iteration of the spawn loop
SpawnWorker ==
    /\ runPc = "spawning"
    /\ spawned < SpawnLoopEnd(Cpus(cfg, env))
    /\ spawned' = spawned + 1
    /\ workerPc' = [workerPc EXCEPT ![spawned + 1] = "idle"]
    /\ UNCHANGED <<env, args, cfg, fsys, file, data, runPc, runResult, run,
                   workerEntry, walkerPc, walkRoots, walkStack, fsQueue, results,
                   sentLog, scanLog, emitLog, storeLog, history>>
    /\ UNCHANGED <<schedVars, callVars>>

\* lines 247-258: drop the run's own result sender, spawn the walker, record
\* the signature statistics
SpawnWalker ==
    /\ runPc = "spawning"
    /\ spawned >= SpawnLoopEnd(Cpus(cfg, env))
    /\ runPc' = "draining"
    /\ walkerPc' = "walking"
    /\ walkRoots' = Unwrap(SelectPaths(args, cfg, env))
    /\ data' = [data EXCEPT !.signature_count = EngineDb.signature_count,
                            !.signatures_age = EngineDb.signatures_age]
    /\ UNCHANGED <<env, args, cfg, fsys, file, runResult, run, spawned, workerPc,
                   workerEntry, walkStack, fsQueue, results, sentLog, scanLog,
                   emitLog, storeLog, history>>
    /\ UNCHANGED <<schedVars, callVars>>

\* --------------------------------------------- the walker thread (249-255)
\* ingest_directory: the item is sent when it is an entry that passes the filter
\* and is a regular file
Sendable(e) ==
    /\ e.ok
    /\ matches(cfg, e)
    /\ should_be_skipped(Kind(e.node)) = None

\* the next root path: WalkDir::new(path).into_iter()
WalkerStartRoot ==
    /\ walkerPc = "walking"
    /\ walkStack = <<>>
    /\ walkRoots # <<>>
    /\ walkStack' = <<WalkRoot(Head(walkRoots))>>
    /\ walkRoots' = Tail(walkRoots)
    /\ UNCHANGED <<env, args, cfg, fsys, file, data, runPc, runResult, run, spawned,
                   workerPc, workerEntry, walkerPc, fsQueue, results, sentLog,
                   scanLog, emitLog, storeLog, history>>
    /\ UNCHANGED <<schedVars, callVars>>

\* variant: break instead of continue on a traversal error
WalkAfterItemBreakOnErr(e, rest) ==
    IF ~e.ok THEN <<>>
    ELSE IF matches(cfg, e) THEN WalkChildren(e) \o rest
    ELSE rest
\* the items the iterator has left after item e: an entry that passes the
\* filter is descended into, an error (continue) or a rejected entry is not
WalkAfterItem(e, rest) ==
    IF e.ok /\ matches(cfg, e) THEN WalkChildren(e) \o rest ELSE rest

\* an item that is not sent: a traversal error (logged), an entry the filter
\* rejects (not descended into), a directory (descended into) or another
\* entry type that is skipped
WalkerSkip ==
    /\ walkerPc = "walking"
    /\ walkStack # <<>>
    /\ LET e == Head(walkStack)
       IN /\ ~Sendable(e)
          /\ walkStack' = WalkAfterItem(e, Tail(walkStack))
    /\ UNCHANGED <<env, args, cfg, fsys, file, data, runPc, runResult, run, spawned,
                   workerPc, workerEntry, walkerPc, walkRoots, fsQueue, results,
                   sentLog, scanLog, emitLog, storeLog, history>>
    /\ UNCHANGED <<schedVars, callVars>>

\* variant: channel::unbounded() for the file queue
FsQueueUnbounded(q) == TRUE
\* room in the bounded channel: a send blocks while the queue is full
FsQueueHasRoom(q) == Len(q) < FsQueueCap

\* tx.send(entry): blocks while the queue is full; when every receiver is gone
\* the send fails and the walk of this root ends
WalkerSend ==
    /\ walkerPc = "walking"
    /\ walkStack # <<>>
    /\ LET e == Head(walkStack)
       IN /\ Sendable(e)
          /\ IF FsReceivers = 0
             THEN /\ walkStack' = <<>>
                  /\ UNCHANGED <<fsQueue, sentLog>>
             ELSE /\ FsQueueHasRoom(fsQueue)
                  /\ fsQueue' = Append(fsQueue, e)
                  /\ sentLog' = sentLog (+) SetToBag({e.path})
                  /\ walkStack' = WalkChildren(e) \o Tail(walkStack)
    /\ UNCHANGED <<env, args, cfg, fsys, file, data, runPc, runResult, run, spawned,
                   workerPc, workerEntry, walkerPc, walkRoots, results, scanLog,
                   emitLog, storeLog, history>>
    /\ UNCHANGED <<schedVars, callVars>>

\* every root walked: the thread ends and drops fs_tx
WalkerFinish ==
    /\ walkerPc = "walking"
    /\ walkStack = <<>>
    /\ walkRoots = <<>>
    /\ walkerPc' = "done"
    /\ UNCHANGED <<env, args, cfg, fsys, file, data, runPc, runResult, run, spawned,
                   workerPc, workerEntry, walkRoots, walkStack, fsQueue, results,
                   sentLog, scanLog, emitLog, storeLog, history>>
    /\ UNCHANGED <<schedVars, callVars>>

\* ------------------------------------------- the worker threads (238-245)
\* for entry in fs_rx: take the head of the file queue
WorkerRecv(w) ==
    /\ workerPc[w] = "idle"
    /\ fsQueue # <<>>
    /\ workerPc' = [workerPc EXCEPT ![w] = "scanning"]
    /\ workerEntry' = [workerEntry EXCEPT ![w] = Head(fsQueue).path]
    /\ fsQueue' = Tail(fsQueue)
    /\ UNCHANGED <<env, args, cfg, fsys, file, data, runPc, runResult, run, spawned,
                   walkerPc, walkRoots, walkStack, results, sentLog, scanLog,
                   emitLog, storeLog, history>>
    /\ UNCHANGED <<schedVars, callVars>>

\* variant: a whitelisted hit is sent on as well
ScanFileSendsAnyHit(path, hit) ==
    IF hit[1] \in {"Virus", "Whitelisted"} THEN <<<<path, hit[2]>>>> ELSE <<>>
\* variant: an engine error is sent on as a nameless hit
ScanFileSendsOnError(path, hit) ==
    IF hit[1] \in {"Virus", "Error"} THEN <<<<path, hit[2]>>>> ELSE <<>>
\* Scanner::scan_file, from the engine's answer on: what is sent for a verdict
ScanFileSends(path, hit) == IF hit[1] = "Virus" THEN <<<<path, hit[2]>>>> ELSE <<>>

\* the engine call returns: Virus is sent on, Clean and Whitelisted are not, an
\* error is logged
WorkerScanned(w) ==
    /\ workerPc[w] = "scanning"
    /\ \E hit \in {EngineScan(fsys, workerEntry[w])} :
          LET path == workerEntry[w]
              out == ScanFileSends(path, hit)
          IN /\ results' = results \o out
             /\ emitLog' = IF out = <<>> THEN emitLog ELSE emitLog (+) SetToBag({out[1]})
             /\ scanLog' = scanLog (+) SetToBag({<<path, hit>>})
    /\ workerPc' = [workerPc EXCEPT ![w] = "idle"]
    /\ workerEntry' = [workerEntry EXCEPT ![w] = NoEntry]
    /\ UNCHANGED <<env, args, cfg, fsys, file, data, runPc, runResult, run, spawned,
                   walkerPc, walkRoots, walkStack, fsQueue, sentLog, storeLog,
                   history>>
    /\ UNCHANGED <<schedVars, callVars>>

\* the file queue is empty and closed: the loop ends, results_tx is dropped
WorkerExit(w) ==
    /\ workerPc[w] = "idle"
    /\ fsQueue = <<>>
    /\ FsSenders = 0
    /\ workerPc' = [workerPc EXCEPT ![w] = "exited"]
    /\ UNCHANGED <<env, args, cfg, fsys, file, data, runPc, runResult, run, spawned,
                   workerEntry, walkerPc, walkRoots, walkStack, fsQueue, results,
                   sentLog, scanLog, emitLog, storeLog, history>>
    /\ UNCHANGED <<schedVars, callVars>>

\* ----------------------------------------------- the aggregator (259-278)
\* the key of a result: the canonical path, or the path as sent when
\* canonicalization fails
ThreatKey(fs, path) ==
    IF IsSome(Canonicalize(fs, path)) THEN Unwrap(Canonicalize(fs, path)) ELSE path

\* one result: canonicalize, notify (a failure is logged), append the name
AggRecv ==
    /\ runPc = "draining"
    /\ results # <<>>
    /\ \E notified \in BOOLEAN, key \in {ThreatKey(fsys, Head(results)[1])} :
          /\ data' = [data EXCEPT !.threats = ThreatsPush(@, key, Head(results)[2])]
          /\ results' = Tail(results)
    /\ UNCHANGED <<env, args, cfg, fsys, file, runPc, runResult, run, spawned,
                   workerPc, workerEntry, walkerPc, walkRoots, walkStack, fsQueue,
                   sentLog, scanLog, emitLog, storeLog, history>>
    /\ UNCHANGED <<schedVars, callVars>>

\* variant: try_recv, the loop ends as soon as the channel is empty
ResultsEmpty == results = <<>>
\* the receive loop of the aggregator ends: the channel is empty and every
\* sender is dropped
ResultsClosed == results = <<>> /\ ResultsSenders = 0

\* the channel is drained: stamp last_scan, store, return
AggFinish(outcome) ==
    /\ runPc = "draining"
    /\ ResultsClosed
    /\ LET stamped == [data EXCEPT !.last_scan = Some(run)]
       IN /\ data' = stamped
          /\ file' = DatabaseStore(file, stamped, outcome)
          /\ storeLog' = IF outcome = "fail_before_write" THEN storeLog ELSE storeLog + 1
          /\ history' = IF outcome = "ok"
                        THEN Append(history, [fs |-> fsys, threats |-> stamped.threats])
                        ELSE history
    /\ runPc' = "returned"
    /\ runResult' = IF outcome = "ok" THEN "ok" ELSE "err_store"
    /\ UNCHANGED <<env, args, cfg, fsys, run, spawned, workerPc, workerEntry,
                   walkerPc, walkRoots, walkStack, fsQueue, results, sentLog,
                   scanLog, emitLog>>
    /\ UNCHANGED <<schedVars, callVars>>

\* ------------------------------------------------------ the environment
\* the process is killed during a run: every thread is gone
Interrupt ==
    /\ runPc \in {"spawning", "draining"}
    /\ runPc' = "returned"
    /\ runResult' = "killed"
    /\ data' = DefaultData
    /\ spawned' = 0
    /\ workerPc' = [w \in Workers |-> "unspawned"]
    /\ workerEntry' = [w \in Workers |-> NoEntry]
    /\ walkerPc' = "unspawned"
    /\ walkRoots' = <<>>
    /\ walkStack' = <<>>
    /\ fsQueue' = <<>>
    /\ results' = <<>>
    /\ sentLog' = EmptyBag
    /\ scanLog' = EmptyBag
    /\ emitLog' = EmptyBag
    /\ UNCHANGED <<env, args, cfg, fsys, file, run, storeLog, history>>
    /\ UNCHANGED <<schedVars, callVars>>

\* between two runs the infected files are cleaned up
FsChange ==
    /\ runPc = "returned"
    /\ run < RunLimit
    /\ fsys.verdict # FsClean.verdict
    /\ fsys' = [fsys EXCEPT !.verdict = FsClean.verdict]
    /\ UNCHANGED <<env, args, cfg, file, data, runPc, runResult, run, spawned,
                   workerPc, workerEntry, walkerPc, walkRoots, walkStack, fsQueue,
                   results, sentLog, scanLog, emitLog, storeLog, history>>
    /\ UNCHANGED <<schedVars, callVars>>

\* ------------------------------------------------------- schedule::run
scanVars ==
    <<env, args, cfg, fsys, file, data, runPc, runResult, run, spawned, workerPc,
      workerEntry, walkerPc, walkRoots, walkStack, fsQueue, results, sentLog,
      scanLog, emitLog, storeLog, history>>

\* robust_sleep(d), lines 130-145: the target is fixed, the loop begins
BeginSleep(d, pc) ==
    /\ sleepReq' = d
    /\ target' = clock + d
    /\ schedPc' = pc

\* variant: continue without robust_sleep(interval)
SkipCycleNoSleep == BeginSleep(0, "skip_sleep")
\* robust_sleep(interval)?; continue (lines 173-174, 206-207, 217-218, 225-226,
\* 235-236): the cycle is skipped
SkipCycle == BeginSleep(interval, "skip_sleep")

\* lines 167-176: read the clock, load the configuration
SchedTop ==
    /\ schedPc = "top"
    /\ now' = clock
    /\ schedDb' = NotLoaded
    /\ \E loaded \in BOOLEAN :
          IF loaded
          THEN schedPc' = "battery" /\ UNCHANGED <<sleepReq, target>>
          ELSE SkipCycle
    /\ UNCHANGED <<clock, schedConf, batteries, stampAt>>
    /\ UNCHANGED <<scanVars, sleepVars, callVars>>

BatteryOutcomes == {"ok", "manager_err", "detect_err", "read_err"}

\* lines 178-212: the battery gate; an error of the battery library is
\* returned from schedule::run by the ? operator
SchedBattery ==
    /\ schedPc = "battery"
    /\ IF ~schedConf.skip_on_battery
       THEN schedPc' = "policy" /\ UNCHANGED <<sleepReq, target>>
       ELSE \E outcome \in BatteryOutcomes :
               IF outcome # "ok"
               THEN schedPc' = "returned" /\ UNCHANGED <<sleepReq, target>>
               ELSE IF batteries = <<>>
               THEN schedPc' = "policy" /\ UNCHANGED <<sleepReq, target>>
               ELSE IF FoldDischarging(FALSE, batteries)
               THEN SkipCycle
               ELSE schedPc' = "policy" /\ UNCHANGED <<sleepReq, target>>
    /\ UNCHANGED <<clock, now, schedConf, batteries, schedDb, stampAt>>
    /\ UNCHANGED <<scanVars, sleepVars, callVars>>

\* lines 214-229: automatic_scans
SchedPolicy ==
    /\ schedPc = "policy"
    /\ IF schedConf.automatic_scans = Some("off")
       THEN SkipCycle
       ELSE IF schedConf.automatic_scans \in {Some("daily"), None}
       THEN schedPc' = "db" /\ UNCHANGED <<sleepReq, target>>
       ELSE SkipCycle
    /\ UNCHANGED <<clock, now, schedConf, batteries, schedDb, stampAt>>
    /\ UNCHANGED <<scanVars, sleepVars, callVars>>

\* lines 231-238: Database::load
SchedLoadDb ==
    /\ schedPc = "db"
    /\ \E dirFound \in BOOLEAN :
          /\ schedDb' = [dir_found |-> dirFound,
                         result |-> DatabaseLoadResult(dirFound, file)]
          /\ IF DatabaseLoadResult(dirFound, file)[1] = "Ok"
             THEN schedPc' = "delay" /\ UNCHANGED <<sleepReq, target>>
             ELSE SkipCycle
    /\ UNCHANGED <<clock, now, schedConf, batteries, stampAt>>
    /\ UNCHANGED <<scanVars, sleepVars, callVars>>

\* the instant data.last_scan stands for
LastScanInstant(d) ==
    IF d.last_scan = None THEN None ELSE Some(stampAt[Unwrap(d.last_scan)])

\* lines 241-267: compute the delay and begin to sleep; gen_range panics on an
\* empty range
SchedDelay ==
    /\ schedPc = "delay"
    /\ LET choices == SleepChoices(LastScanInstant(schedDb.result[2]), schedConf, now)
       IN IF choices = {}
          THEN schedPc' = "panicked" /\ UNCHANGED <<sleepReq, target>>
          ELSE \E sleep \in choices : BeginSleep(sleep, "delay_sleep")
    /\ UNCHANGED <<clock, now, schedConf, batteries, schedDb, stampAt>>
    /\ UNCHANGED <<scanVars, sleepVars, callVars>>

\* what the power sources can have turned into when a sleep is over
\* (nothing changed, or the host was plugged in, or it was unplugged)
BatteryChanges(bs) ==
    {bs, [i \in DOMAIN bs |-> "Charging"], [i \in DOMAIN bs |-> "Discharging"]}

\* variant: one thread::sleep for all that remains
NextSleepWhole(remaining) == remaining
\* line 154: cmp::min(600 s, remaining)
NextSleep(remaining) == IF SleepChunk < remaining THEN SleepChunk ELSE remaining

\* how long the host stays suspended when it is suspended during a sleep
SuspendTimes == {Hours(1)}

\* lines 147-158, remaining > 0: thread::sleep(min(600 s, remaining)); the
\* wall clock advances by the time asked for, and by more when the host is
\* suspended meanwhile
SchedSleepChunk ==
    /\ schedPc \in {"skip_sleep", "delay_sleep"}
    /\ target - clock > 0
    /\ \E next_sleep \in {NextSleep(target - clock)} :
       \E over \in {0} \cup (IF suspends > 0 THEN SuspendTimes ELSE {}) :
          /\ clock + next_sleep + over <= MaxClock
          /\ clock' = clock + next_sleep + over
          /\ asked' = next_sleep
          /\ suspends' = IF over > 0 THEN suspends - 1 ELSE suspends
    /\ UNCHANGED <<schedPc, now, schedConf, batteries, schedDb, sleepReq, target,
                   stampAt, returnedAt>>
    /\ UNCHANGED <<scanVars, callVars>>

\* lines 150-152 and 160: remaining <= 0, robust_sleep returns; after a skipped
\* cycle the loop continues, after the computed delay the scan is next.  The
\* power sources may have changed while time passed.
SchedWake ==
    /\ schedPc \in {"skip_sleep", "delay_sleep"}
    /\ target - clock <= 0
    /\ schedPc' = IF schedPc = "skip_sleep" THEN "top" ELSE "scan"
    /\ batteries' \in IF sleepReq > 0 THEN BatteryChanges(batteries) ELSE {batteries}
    /\ UNCHANGED <<clock, now, schedConf, schedDb, sleepReq, target, stampAt>>
    /\ UNCHANGED <<scanVars, sleepVars, callVars>>

\* line 269: scan::run(args::Scan::default()) is entered
SchedScanStart ==
    /\ schedPc = "scan"
    /\ schedPc' = "scanning"
    /\ \E o \in {"ok", "config_err", "db_err", "engine_err"} : RunStart(o)
    /\ UNCHANGED <<clock, now, schedConf, batteries, schedDb, sleepReq, target, stampAt>>
    /\ UNCHANGED <<sleepVars, callVars>>

\* lines 269-272: scan::run returned, an error is logged, the loop continues
SchedScanReturn ==
    /\ schedPc = "scanning"
    /\ runPc = "returned"
    /\ schedPc' = "top"
    /\ stampAt' = IF runResult \in {"ok", "err_store"}
                  THEN (run :> clock) @@ stampAt
                  ELSE stampAt
    /\ returnedAt' = Some([at |-> clock, result |-> runResult])
    /\ UNCHANGED <<clock, now, schedConf, batteries, schedDb, sleepReq, target>>
    /\ UNCHANGED <<scanVars, asked, suspends, callVars>>

\* ------------------------------------------- the scheduler's initial states
\* preferred-hours windows: same-day, overnight, and start = end
WindowDay == [start |-> Hours(9), end |-> Hours(17)]
WindowNight == [start |-> Hours(22), end |-> Hours(6)]
WindowEqual == [start |-> Hours(10), end |-> Hours(10)]

\* a state file stamped by an earlier process, whose stamp 0 stands for an
\* instant ago before the scheduler's start
StampedFile == FileOf([DefaultData EXCEPT !.last_scan = Some(0)])
StampAges == {Hours(1), Hours(24), Hours(25)}

SchedInitCommon ==
    /\ env = [num_cpus |-> MaxWorkers, home |-> Some(pR)]
    /\ args = [paths |-> <<>>]
    /\ cfg = [paths |-> <<pRD>>, skip_hidden |-> FALSE, excludes |-> {},
              skip_larger_than |-> None, concurrency |-> None]
    /\ fsys = FsInfected
    /\ data = DefaultData
    /\ runPc = "idle"
    /\ runResult = "none"
    /\ run = 0
    /\ history = <<>>
    /\ ThreadsReset
    /\ schedPc = "top"
    /\ now = 0
    /\ schedDb = NotLoaded
    /\ sleepReq = 0
    /\ target = 0
    /\ asked = 0
    /\ suspends = 0
    /\ returnedAt = None
    /\ NoCall

\* every window at every time of day, over every state file
SchedInitHours ==
    /\ clock \in {FirstDay + Hours(3), FirstDay + Hours(12), FirstDay + Hours(23)}
    /\ schedConf \in [skip_on_battery : {FALSE}, automatic_scans : {None},
                      preferred_hours : {None, Some(WindowDay), Some(WindowNight),
                                         Some(WindowEqual)}]
    /\ batteries = <<>>
    /\ \/ file \in {FileMissing, FileCorrupt} /\ stampAt = NoStamps
       \/ file = StampedFile /\ \E age \in StampAges : stampAt = (0 :> (clock - age))

\* every policy value and every power state, without preferred hours
SchedInitGates ==
    /\ clock = FirstDay + Hours(12)
    /\ schedConf \in [skip_on_battery : BOOLEAN,
                      automatic_scans : {None, Some("off"), Some("daily"), Some("weekly")},
                      preferred_hours : {None}]
    /\ batteries \in {<<>>, <<"Charging">>, <<"Discharging">>, <<"Discharging", "Full">>}
    /\ (schedConf.automatic_scans # None => batteries = <<>>)
    /\ \/ file = FileMissing /\ stampAt = NoStamps
       \/ file = StampedFile /\ stampAt = (0 :> (clock - Hours(1)))

SchedInit == SchedInitCommon /\ (SchedInitHours \/ SchedInitGates)

SchedNext ==
    \/ SchedTop
    \/ SchedBattery
    \/ SchedPolicy
    \/ SchedLoadDb
    \/ SchedDelay
    \/ SchedSleepChunk
    \/ SchedWake
    \/ SchedScanStart
    \/ SchedScanReturn
    \/ SpawnWorker
    \/ SpawnWalker
    \/ WalkerStartRoot
    \/ WalkerSkip
    \/ WalkerSend
    \/ WalkerFinish
    \/ \E w \in Workers : WorkerRecv(w)
    \/ \E w \in Workers : WorkerScanned(w)
    \/ \E w \in Workers : WorkerExit(w)
    \/ AggRecv
    \/ \E o \in StoreOutcomes : AggFinish(o)

SchedSpec == SchedInit /\ [][SchedNext]_vars

\* ------------------------------- processes that share the state file (db.rs)
\* Two processes of the program run side by side; each is a scan (scan::run:
\* load, clear the threats, record what it found, stamp, store) or an
\* infections command that deletes (main.rs: load, remove the deleted paths,
\* store).  Nothing locks the file.
Procs == {1, 2}
pA == Append(pR, Name(nA))
\* the threats a scan can end with
FoundTried == {EmptyThreats, ThreatsPush(EmptyThreats, pA, "X")}
\* the record on disk when the processes start
StoredBefore ==
    [DefaultData EXCEPT !.last_scan = Some(0),
                        !.threats = ThreatsPush(ThreatsPush(EmptyThreats, pA, "X"),
                                                pRDB, "Y")]

\* the length of serde_json::to_vec(&data), in units: it grows with every
\* threat path, every name and a last_scan that is set
RECURSIVE ThreatsLen(_)
ThreatsLen(t) ==
    IF DOMAIN t = {} THEN 0
    ELSE LET q == CHOOSE r \in DOMAIN t : TRUE
         IN 1 + Len(t[q]) + ThreatsLen([r \in DOMAIN t \ {q} |-> t[r]])
SerializedLen(d) == 1 + (IF d.last_scan = None THEN 0 ELSE 1) + ThreatsLen(d.threats)

ProcsInit ==
    /\ env = [num_cpus |-> MaxWorkers, home |-> Some(pR)]
    /\ data = DefaultData
    /\ runPc = "idle" /\ runResult = "none" /\ run = 0 /\ history = <<>>
    /\ ThreadsReset
    /\ SchedulerOff
    /\ call = <<"none">> /\ ret = <<"none">>
    /\ inf = [pc |-> "off"]
    /\ args = [paths |-> <<>>]
    /\ cfg = [paths |-> <<>>, skip_hidden |-> FALSE, excludes |-> {},
              skip_larger_than |-> None, concurrency |-> None]
    /\ fsys = FsClean
    /\ procs \in [Procs -> {[kind |-> k, pc |-> "start", data |-> DefaultData] :
                              k \in {"scan", "infections"}}]
    /\ \E f \in {FileMissing, FileOf(StoredBefore)} :
          /\ file = f
          /\ disk = [len |-> IF f.state = "ok" THEN SerializedLen(f.data) ELSE 0,
                     last |-> 0, overlap |-> FALSE]

ProcFrame ==
    /\ UNCHANGED <<env, args, cfg, fsys, data, runPc, runResult, run, spawned,
                   workerPc, workerEntry, walkerPc, walkRoots, walkStack, fsQueue,
                   results, sentLog, scanLog, emitLog, storeLog, history>>
    /\ UNCHANGED <<schedVars, call, ret, inf>>

\* Database::load()
ProcLoad(p) ==
    /\ procs[p].pc = "start"
    /\ procs' = [procs EXCEPT ![p].pc = "loaded", ![p].data = DatabaseLoad(file)]
    /\ UNCHANGED <<file, disk>>
    /\ ProcFrame

\* the process changes its copy: a scan replaces the threats by what it found
\* and stamps last_scan; infections removes the paths it deleted (one here)
\* and stores only when it removed one
ProcChange(p) ==
    /\ procs[p].pc = "loaded"
    /\ \/ /\ procs[p].kind = "scan"
          /\ \E found \in FoundTried :
                procs' = [procs EXCEPT
                            ![p].pc = "changed",
                            ![p].data = [ClearThreats(@) EXCEPT
                                            !.threats = found,
                                            !.signature_count = EngineDb.signature_count,
                                            !.signatures_age = EngineDb.signatures_age,
                                            !.last_scan = Some(p)]]
       \/ /\ procs[p].kind = "infections"
          /\ procs[p].data.threats # EmptyThreats
          /\ \E q \in DOMAIN procs[p].data.threats :
                procs' = [procs EXCEPT
                            ![p].pc = "changed",
                            ![p].data.threats =
                                [r \in DOMAIN @ \ {q} |-> @[r]]]
       \/ /\ procs[p].kind = "infections"
          /\ procs[p].data.threats = EmptyThreats
          /\ procs' = [procs EXCEPT ![p].pc = "done"]
    /\ UNCHANGED <<file, disk>>
    /\ ProcFrame

\* Database::store, fs::write: File::create opens the file and truncates it
ProcStoreOpen(p) ==
    /\ procs[p].pc = "changed"
    /\ procs' = [procs EXCEPT ![p].pc = "opened"]
    /\ file' = FileCorrupt
    /\ disk' = [disk EXCEPT !.len = 0,
                            !.overlap = @ \/ \E q \in Procs \ {p} : procs[q].pc = "opened"]
    /\ ProcFrame

\* Database::store, fs::write: write_all puts the buffer at offset 0 of the
\* process's own descriptor; bytes another process wrote beyond the buffer's
\* end stay in the file, which then does not parse
ProcStoreWrite(p) ==
    /\ procs[p].pc = "opened"
    /\ procs' = [procs EXCEPT ![p].pc = "done"]
    /\ file' = IF SerializedLen(procs[p].data) >= disk.len
               THEN FileOf(procs[p].data)
               ELSE FileCorrupt
    /\ disk' = [disk EXCEPT !.len = IF SerializedLen(procs[p].data) >= @
                                    THEN SerializedLen(procs[p].data) ELSE @,
                            !.last = p]
    /\ ProcFrame

ProcsNext ==
    \/ \E p \in Procs : ProcLoad(p)
    \/ \E p \in Procs : ProcChange(p)
    \/ \E p \in Procs : ProcStoreOpen(p)
    \/ \E p \in Procs : ProcStoreWrite(p)
ProcsSpec == ProcsInit /\ [][ProcsNext]_vars

\* --------------------------------------- the infections command (main.rs)
\* the files of the host that matter to the command: the paths that exist,
\* and those whose removal the file system refuses
\* variant: a file that is not found is an error
ensure_deleted_strict(path, files) ==
    IF path \in files.present /\ path \notin files.refused
    THEN [ok |-> TRUE, files |-> [files EXCEPT !.present = @ \ {path}]]
    ELSE [ok |-> FALSE, files |-> files]
\* utils::ensure_deleted: fs::remove_file, NotFound is not an error
ensure_deleted(path, files) ==
    IF path \in files.refused /\ path \in files.present
    THEN [ok |-> FALSE, files |-> files]
    ELSE [ok |-> TRUE, files |-> [files EXCEPT !.present = @ \ {path}]]

\* utils::ask_confirmation: Ok(true), Ok(false), or Err when stdin is closed
Answers == {"yes", "no", "err"}

ThreatPaths == {pA, pRDB}
InfInit ==
    /\ env = [num_cpus |-> MaxWorkers, home |-> Some(pR)]
    /\ data = DefaultData
    /\ runPc = "idle" /\ runResult = "none" /\ run = 0 /\ history = <<>>
    /\ ThreadsReset
    /\ SchedulerOff
    /\ call = <<"none">> /\ ret = <<"none">>
    /\ procs = <<>>
    /\ disk = [len |-> 0, last |-> 0, overlap |-> FALSE]
    /\ args = [paths |-> <<>>]
    /\ cfg = [paths |-> <<>>, skip_hidden |-> FALSE, excludes |-> {},
              skip_larger_than |-> None, concurrency |-> None]
    /\ fsys = FsClean
    /\ file \in {FileMissing, FileCorrupt, FileOf(StoredBefore)}
    /\ \E delete \in BOOLEAN, delete_all \in BOOLEAN, present \in SUBSET ThreatPaths,
          refused \in {{}, {pA}} :
          inf = [pc |-> "start",
                 args |-> [delete |-> delete, delete_all |-> delete_all],
                 files |-> [present |-> present, refused |-> refused],
                 data |-> DefaultData,
                 todo |-> {},
                 deleted |-> {},
                 \* what happened, for the record: the state at entry, the
                 \* paths whose deletion was asked for, the lines printed,
                 \* the writes of the state file
                 before |-> [file |-> file, present |-> present, data |-> DefaultData],
                 requested |-> {},
                 printed |-> {},
                 stores |-> 0,
                 result |-> "none"]

InfFrame ==
    /\ UNCHANGED <<env, args, cfg, fsys, data, runPc, runResult, run, spawned,
                   workerPc, workerEntry, walkerPc, walkRoots, walkStack, fsQueue,
                   results, sentLog, scanLog, emitLog, storeLog, history>>
    /\ UNCHANGED <<schedVars, call, ret, procs, disk>>

\* lines 122-125: Database::load()?, then the loop over data.threats begins
InfLoad ==
    /\ inf.pc = "start"
    /\ \E dirFound \in BOOLEAN :
          LET loaded == DatabaseLoadResult(dirFound, file)
          IN IF loaded[1] = "Err"
             THEN inf' = [inf EXCEPT !.pc = "returned", !.result = "err_db"]
             ELSE inf' = [inf EXCEPT !.pc = "loop",
                                     !.data = loaded[2],
                                     !.before.data = loaded[2],
                                     !.todo = DOMAIN loaded[2].threats]
    /\ UNCHANGED file
    /\ InfFrame

\* lines 127-150: one iteration of the loop, on any entry the map has left
InfVisit ==
    /\ inf.pc = "loop"
    /\ \E path \in inf.todo :
          IF inf.args.delete \/ inf.args.delete_all
          THEN \E answer \in (IF inf.args.delete_all THEN {"yes"} ELSE Answers) :
                  CASE answer = "err" ->
                         inf' = [inf EXCEPT !.pc = "returned", !.result = "err_stdin"]
                    [] answer = "no" ->
                         inf' = [inf EXCEPT !.todo = @ \ {path}]
                    [] OTHER ->
                         LET r == ensure_deleted(path, inf.files)
                         IN inf' = [inf EXCEPT
                                      !.todo = @ \ {path},
                                      !.requested = @ \cup {path},
                                      !.files = r.files,
                                      !.deleted = IF r.ok THEN @ \cup {path} ELSE @]
          ELSE inf' = [inf EXCEPT !.todo = @ \ {path}, !.printed = @ \cup {path}]
    /\ UNCHANGED file
    /\ InfFrame

\* lines 152-157: the deleted paths leave the record, which is stored, when
\* there is one; then main returns Ok
InfFinish ==
    /\ inf.pc = "loop"
    /\ inf.todo = {}
    /\ IF inf.deleted # {}
       THEN \E outcome \in StoreOutcomes :
               LET kept == [inf.data EXCEPT
                              !.threats = [q \in DOMAIN @ \ inf.deleted |-> @[q]]]
               IN /\ file' = DatabaseStore(file, kept, outcome)
                  /\ inf' = [inf EXCEPT
                               !.pc = "returned",
                               !.data = kept,
                               !.stores = IF outcome = "fail_before_write" THEN @ ELSE @ + 1,
                               !.result = IF outcome = "ok" THEN "ok" ELSE "err_store"]
       ELSE /\ inf' = [inf EXCEPT !.pc = "returned", !.result = "ok"]
            /\ UNCHANGED file
    /\ InfFrame

InfNext == InfLoad \/ InfVisit \/ InfFinish
InfSpec == InfInit /\ [][InfNext]_vars

\* ------------------------------------------ functions called on their own
\* a process in which nothing runs but the function called
CallProcess ==
    /\ InitCommon
    /\ NoCall
    /\ args = [paths |-> <<>>]
    /\ fsys = FsClean
\* the scan configurations tried: with and without skip_hidden, without
\* excludes or with everything below r excluded, without a size ceiling or
\* with one of 0, 1 or 2 bytes
ConfigsTried ==
    [paths : {<<>>}, skip_hidden : BOOLEAN,
     excludes : {{}, {[lit |-> pR, star |-> TRUE]}},
     skip_larger_than : {None, Some(0), Some(1), Some(2)},
     concurrency : {None}]
CallInit == CallProcess /\ SchedulerOff /\ cfg \in ConfigsTried

\* the hours a window starts or ends at, and the instants of the first day
\* the functions are called at: every such hour and three more, each with
\* the second before and the second after it
HourMarks == {0, 6, 10, 17, 22}
WindowsTried == [start : {Hours(h) : h \in HourMarks}, end : {Hours(h) : h \in HourMarks}]
InstantsTried ==
    {FirstDay + tod : tod \in {t \in {Hours(h) + d : h \in HourMarks \cup {3, 12, 23},
                                                     d \in {-1, 0, 1}} : t >= 0}}

\* ph.until_next_start(dt)
CallUntilNextStart ==
    /\ call = <<"none">>
    /\ \E ph \in WindowsTried, dt \in InstantsTried :
          /\ call' = <<"until_next_start", ph, dt>>
          /\ ret' = until_next_start(ph, dt)
    /\ UNCHANGED <<scanVars, schedVars, cmdVars>>

\* ph.until_next_end(dt)
CallUntilNextEnd ==
    /\ call = <<"none">>
    /\ \E ph \in WindowsTried, dt \in InstantsTried :
          /\ call' = <<"until_next_end", ph, dt>>
          /\ ret' = until_next_end(ph, dt)
    /\ UNCHANGED <<scanVars, schedVars, cmdVars>>

\* the entries tried: every base name of interest on a node of every type
\* (two regular files of sizes 1 and 2, one whose metadata cannot be read), as
\* a traversal root and as an entry below r
NamesTried ==
    {<<".">>, <<".", ".">>, <<".", ".", ".">>, <<".", "x">>, <<"x">>, <<"x", ".">>,
     <<".", BadByte>>, <<BadByte>>}
NodesTried == {nR, nSymlink, nSocket, nFifo, nBlock, nChar, nA, nB, nHidden}
EntriesTried ==
    {WalkOk(<<name>>, n, 0) : name \in NamesTried, n \in NodesTried}
      \cup {WalkOk(Append(pR, name), n, 1) : name \in NamesTried, n \in NodesTried}

\* matches(cfg, e)
CallMatches ==
    /\ call = <<"none">>
    /\ \E e \in EntriesTried :
          /\ call' = <<"matches", e>>
          /\ ret' = matches(cfg, e)
    /\ UNCHANGED <<scanVars, schedVars, cmdVars>>

\* one iteration of ingest_directory's loop, on item e: whether the entry is
\* sent, and what the iterator goes on with
CallIngest ==
    /\ call = <<"none">>
    /\ \E e \in EntriesTried :
          /\ call' = <<"ingest", e>>
          /\ ret' = [sent |-> Sendable(e), rest |-> WalkAfterItem(e, <<>>)]
    /\ UNCHANGED <<scanVars, schedVars, cmdVars>>

\* the header of the test test_datetime_from_header
TestHeader ==
    <<
    "C", "l", "a", "m", "A", "V", "-", "V", "D", "B", ":", "0", "9", " ", "M",
    "a", "y", " ", "2", "0", "2", "1", " ", "0", "7", "-", "0", "8", " ", "-",
    "0", "4", "0", "0", ":", "2", "6", "1", "6", "5", ":", "3", "9", "7", "8",
    "1", "0", "1", ":", "6", "3", ":", "X", ":", "X", ":", "r", "a", "y", "n",
    "m", "a", "n", ":", "1", "6", "2", "0", "5", "5", "8", "5", "1", "6", " ",
    " ", " ", " "
    >>
\* k fields "a:" in front of the field
RECURSIVE LeadingFields(_)
LeadingFields(k) == IF k = 0 THEN <<>> ELSE <<"a", ":">> \o LeadingFields(k - 1)
FieldsTried == {<<>>, <<"0">>, <<"7">>, <<"4", "2">>, <<"4", "x">>, <<"x", "4">>, <<"x">>}
TailsTried == {<<>>, <<" ">>, <<" ", " ">>, <<" ", "9">>}
HeadersTried ==
    {TestHeader} \cup
    {LeadingFields(k) \o field \o tail :
        k \in {0, 7, 8, 9}, field \in FieldsTried, tail \in TailsTried}

\* parse_database_age(header)
CallParseDatabaseAge ==
    /\ call = <<"none">>
    /\ \E header \in HeadersTried :
          /\ call' = <<"parse_database_age", header>>
          /\ ret' = parse_database_age(header)
    /\ UNCHANGED <<scanVars, schedVars, cmdVars>>

CallNext ==
    \/ CallUntilNextStart
    \/ CallUntilNextEnd
    \/ CallMatches
    \/ CallIngest
    \/ CallParseDatabaseAge
CallSpec == CallInit /\ [][CallNext]_vars

\* robust_sleep(sleep) has just fixed its target: the delays tried, in
\* seconds, around 0 and around the 600 seconds of one sleep
SleepsTried == {-600, -1, 0, 1, 599, 600, 601, 1200, 1800, 4200}
SleepInit ==
    /\ CallProcess
    /\ schedPc \in {"skip_sleep", "delay_sleep"}
    /\ clock = FirstDay
    /\ now = FirstDay
    /\ schedConf = [skip_on_battery |-> FALSE, automatic_scans |-> None,
                    preferred_hours |-> None]
    /\ batteries = <<>>
    /\ schedDb = NotLoaded
    /\ stampAt = NoStamps
    /\ cfg = [paths |-> <<>>, skip_hidden |-> FALSE, excludes |-> {},
              skip_larger_than |-> None, concurrency |-> None]
    /\ sleepReq \in SleepsTried
    /\ target = clock + sleepReq
    /\ asked = 0
    /\ suspends \in 0..MaxSuspends
    /\ returnedAt = None
SleepNext == SchedSleepChunk \/ SchedWake
SleepSpec == SleepInit /\ [][SleepNext]_vars

RunOutcomes == {"ok", "config_err", "db_err", "engine_err"}

Next ==
    \/ \E o \in RunOutcomes : RunBegin(o)
    \/ SpawnWorker
    \/ SpawnWalker
    \/ WalkerStartRoot
    \/ WalkerSkip
    \/ WalkerSend
    \/ WalkerFinish
    \/ \E w \in Workers : WorkerRecv(w)
    \/ \E w \in Workers : WorkerScanned(w)
    \/ \E w \in Workers : WorkerExit(w)
    \/ AggRecv
    \/ \E o \in StoreOutcomes : AggFinish(o)
    \/ Interrupt
    \/ FsChange

Spec == Init /\ [][Next]_vars

\* the scan command with -j: clap parses the flag as usize, so 0 is accepted,
\* and the value reaches config.scan.concurrency as given
JobsTried == {Some(0), Some(1)}
PoolInit ==
    /\ InitCommon /\ SchedulerOff /\ NoCall
    /\ args \in {[paths |-> <<>>], [paths |-> <<pLD, pR>>]}
    /\ cfg \in [paths : {<<>>}, skip_hidden : {FALSE}, excludes : {{}},
                skip_larger_than : {None}, concurrency : JobsTried]
    /\ fsys \in {FsInfected, FsMixed, FsError}
PoolSpec == PoolInit /\ [][Next]_vars

\* The threads of a run under the scheduling the operating system gives
\* them: the run's own thread, the walker thread and every worker thread each
\* take a step when they can (an engine call that was made returns).
MainStep == SpawnWorker \/ SpawnWalker \/ AggRecv \/ \E o \in StoreOutcomes : AggFinish(o)
WalkerStep == WalkerStartRoot \/ WalkerSkip \/ WalkerSend \/ WalkerFinish
WorkerStep(w) == WorkerRecv(w) \/ WorkerScanned(w) \/ WorkerExit(w)
LiveNext ==
    \/ \E o \in RunOutcomes : RunBegin(o)
    \/ MainStep
    \/ WalkerStep
    \/ \E w \in Workers : WorkerStep(w)
LiveSpec ==
    /\ Init
    /\ [][LiveNext]_vars
    /\ WF_vars(MainStep)
    /\ WF_vars(WalkerStep)
    /\ \A w \in Workers : WF_vars(WorkerStep(w))

\* ------------------------------------------------------------- the claims
Names == {"X", "Y"}
Verdicts == {Clean, Whitelisted, EngineError} \cup {Virus(n) : n \in Names}
Scanning == {w \in Workers : workerPc[w] = "scanning"}
BagOfSeq(q) == [x \in {q[i] : i \in DOMAIN q} |-> Cardinality({i \in DOMAIN q : q[i] = x})]
RECURSIVE BagSum(_, _)
BagSum(S, B) ==
    IF S = {} THEN 0
    ELSE LET x == CHOOSE y \in S : TRUE IN B[x] + BagSum(S \ {x}, B)
RECURSIVE SeqOfSet(_)
SeqOfSet(S) ==
    IF S = {} THEN <<>>
    ELSE LET x == CHOOSE y \in S : TRUE IN <<x>> \o SeqOfSet(S \ {x})
\* the aggregator of this run has left its receive loop, stamped and stored
AggReturned == runPc = "returned" /\ runResult \in {"ok", "err_store"}
\* the key the claims expect for a result sent under path p
KeyOf(p) ==
    LET n == ResolveFrom(nTop, p, TRUE)
    IN IF n = NoNode \/ n \in fsys.canonFail THEN p ELSE CanonPath(n)
EmittedKeys == {KeyOf(m[1]) : m \in DOMAIN emitLog}

\* C1: when the aggregator has stamped last_scan and stored, every worker has
\* exited, the result channel is empty, and the threat record holds, per key
\* (canonical path, or the path as sent when canonicalization fails), exactly
\* the names of the pairs the workers emitted, as often as they were emitted.
C1_AllEmittedRecorded ==
    AggReturned =>
        /\ LiveWorkers = {}
        /\ results = <<>>
        /\ data.last_scan = Some(run)
        /\ DOMAIN data.threats = EmittedKeys
        /\ \A k \in EmittedKeys : \A n \in Names :
              Cardinality({i \in DOMAIN data.threats[k] : data.threats[k][i] = n})
                = BagSum({m \in DOMAIN emitLog : KeyOf(m[1]) = k /\ m[2] = n}, emitLog)
        /\ runResult = "ok" => file = FileOf(data)
\* two workers ran, a pair sent under a path through the link l was recorded
\* under its canonical path, and the same key got two names
C1_Witness ==
    /\ AggReturned
    /\ spawned = 2
    /\ \E m \in DOMAIN emitLog : KeyOf(m[1]) # m[1] /\ Len(data.threats[KeyOf(m[1])]) = 2

\* C2: with at least one worker and every engine call returning, a run that
\* has loaded the engine always reaches the point where the aggregator has left
\* its receive loop, stamped, stored and returned.
C2_RunTerminates == (runPc = "spawning") ~> AggReturned
\* a run over the big directory (the queue fills, the walker blocks) returned
C2_Witness ==
    /\ AggReturned
    /\ BagCardinality(sentLog) > FsQueueCap

\* C3: the number of files inside an engine call at one moment is at most the
\* configured concurrency, or the number of processing units when none is set.
C3_ConcurrencyBound ==
    Cardinality(Scanning) <=
        IF cfg.concurrency = None THEN env.num_cpus ELSE cfg.concurrency[2]
\* the bound is reached: as many engine calls in flight as the pool has workers
C3_Witness ==
    /\ cfg.concurrency = None
    /\ Cardinality(Scanning) = env.num_cpus
    /\ Cardinality(Scanning) > 1

\* C4: the file queue never holds more than 128 entries, the walker is never
\* more than 128 files ahead of the workers, and with the queue full the
\* walker's send is not enabled.
C4_QueueBounded ==
    /\ Len(fsQueue) <= 128
    /\ BagCardinality(sentLog) - BagCardinality(scanLog) - Cardinality(Scanning) <= 128
    /\ (Len(fsQueue) = 128 /\ FsReceivers > 0) => ~ENABLED WalkerSend
\* the queue is full and the walker's next item is a file it wants to send
C4_Witness ==
    /\ Len(fsQueue) = 128
    /\ walkerPc = "walking"
    /\ walkStack # <<>>
    /\ Sendable(Head(walkStack))

\* C5: whatever the filter settings, every entry on the file queue and every
\* path a worker holds is a regular file (by lstat): no directory, symlink,
\* socket, fifo or device.
C5_OnlyRegularFiles ==
    /\ \A i \in DOMAIN fsQueue : Kind(fsQueue[i].node) = "file"
    /\ \A w \in Scanning : Kind(ResolveFrom(nTop, workerEntry[w], FALSE)) = "file"
\* with no filter set the walker is past the directory r, its symlink, socket,
\* fifo and device entries, and has sent the file a that follows them
C5_Witness ==
    /\ ~cfg.skip_hidden /\ cfg.excludes = {} /\ cfg.skip_larger_than = None
    /\ <<Name(nR), Name(nA)>> \in DOMAIN sentLog
    /\ walkerPc = "done"

FailedEarly ==
    runPc = "returned" /\ runResult \in {"err_config", "err_db", "err_home", "err_engine", "killed"}

\* C7: the state file is written at most once per run; a step changes the file
\* only as the run's one write, made by the aggregator when the result channel
\* is empty and every worker has exited; so a run that fails before that or is
\* killed leaves the file as it found it.
C7_StoreOnceAtEnd ==
    /\ [](storeLog <= 1)
    /\ [][/\ (file' # file \/ storeLog' > storeLog) =>
                /\ storeLog = 0 /\ storeLog' = 1
                /\ runPc = "draining" /\ runPc' = "returned"
                /\ results = <<>> /\ LiveWorkers = {} /\ walkerPc = "done"
                /\ run' = run
          /\ (run' # run \/ runResult' = "killed") => file' = file]_vars
\* a second run failed early or was killed, with nothing written, and the file
\* still holds the threats the first run stored
C7_Witness ==
    /\ run = 2
    /\ FailedEarly
    /\ runResult \in {"killed", "err_db"}
    /\ storeLog = 0
    /\ file.state = "ok"
    /\ file.data.last_scan = Some(1)
    /\ file.data.threats # EmptyThreats

\* C8: after a completed run the stored threat record has exactly the keys of
\* the pairs the workers emitted during that run, each with a non-empty list of
\* names; and every stored list is non-empty at all times.
C8_OnlyLatestRun ==
    /\ (runPc = "returned" /\ runResult = "ok") =>
          /\ file.state = "ok"
          /\ file.data.last_scan = Some(run)
          /\ DOMAIN file.data.threats = EmittedKeys
    /\ \A k \in DOMAIN file.data.threats : file.data.threats[k] # <<>>
    /\ \A k \in DOMAIN data.threats : data.threats[k] # <<>>
\* the first run stored threats, the files were cleaned, and the second
\* completed run stored an empty record
C8_Witness ==
    /\ runPc = "returned" /\ runResult = "ok"
    /\ Len(history) = 2
    /\ history[1].threats # EmptyThreats
    /\ file.data.threats = EmptyThreats
    /\ file.data.last_scan = Some(2)

\* C9: two completed runs over the same file system stored the same threat
\* record: the same keys, and per key the same names in the same order.
C9_Idempotent ==
    \A i, j \in DOMAIN history :
        history[i].fs = history[j].fs => history[i].threats = history[j].threats
\* two completed runs over the same file system, over the two roots that reach
\* the file b (one through the link), by two workers: b's key holds two names
C9_Witness ==
    /\ Len(history) = 2
    /\ history[1].fs = history[2].fs
    /\ args.paths = <<pLD, pR>>
    /\ spawned = 2
    /\ \E k \in DOMAIN history[2].threats : Len(history[2].threats[k]) = 2

\* C10: a run whose engine load fails returns its error in the step that
\* started it, with no worker and no walker spawned, nothing on a channel, no
\* write made and the state file as it was.
C10_EngineLoadFailure ==
    /\ [](runResult = "err_engine" =>
             /\ runPc = "returned"
             /\ spawned = 0
             /\ \A w \in Workers : workerPc[w] = "unspawned"
             /\ walkerPc = "unspawned"
             /\ fsQueue = <<>> /\ results = <<>>
             /\ storeLog = 0)
    /\ [][runResult' = "err_engine" => file' = file]_vars
\* the engine failed to load in the second run: the file holds the first run's
\* threats and last_scan, though the run had cleared its in-memory record
C10_Witness ==
    /\ run = 2
    /\ runResult = "err_engine"
    /\ file.state = "ok"
    /\ file.data.last_scan = Some(1)
    /\ file.data.threats # EmptyThreats
    /\ data.threats = EmptyThreats

\* C11: an engine call that returns an error leaves its worker in the receive
\* loop (idle, not exited), sends nothing, and touches neither the record nor
\* the run; when the run has returned, every file the walker sent was scanned
\* (those queued behind the failing file included), no failing file has a
\* threat entry, and a store that succeeded wrote the record.
C11_EngineErrorTolerated ==
    /\ [][\A w \in Workers :
            (/\ workerPc[w] = "scanning"
             /\ workerPc'[w] # "scanning"
             /\ scanLog' = scanLog (+) SetToBag({<<workerEntry[w], EngineError>>}))
            => /\ workerPc'[w] = "idle"
               /\ results' = results
               /\ emitLog' = emitLog
               /\ data' = data
               /\ runPc' = runPc
               /\ fsQueue' = fsQueue
               /\ \A v \in Workers \ {w} : workerPc'[v] = workerPc[v]]_vars
    /\ [](AggReturned =>
             /\ \A p \in DOMAIN sentLog :
                   sentLog[p] = BagSum({s \in DOMAIN scanLog : s[1] = p}, scanLog)
             /\ \A s \in DOMAIN scanLog :
                   s[2] = EngineError => KeyOf(s[1]) \notin DOMAIN data.threats
             /\ (runResult = "ok" => file = FileOf(data)))
\* one worker met the engine error on a, went on to the hidden file queued
\* behind it, and the run stored that file's threat
C11_Witness ==
    /\ AggReturned
    /\ runResult = "ok"
    /\ spawned = 1
    /\ \E s \in DOMAIN scanLog : s[2] = EngineError
    /\ \E s \in DOMAIN scanLog : s[2] = Virus("X") /\ KeyOf(s[1]) \in DOMAIN file.data.threats

\* the root paths of the current run
RunRoots == Unwrap(SelectPaths(args, cfg, env))
\* path p lies below directory path d
Below(d, p) == Len(p) > Len(d) /\ SubSeq(p, 1, Len(d)) = d

\* C12: the step that takes a traversal error from the iterator sends nothing,
\* leaves the walker walking and goes on with the items that remain; when the
\* walker is done it has dropped its sender, and a walk of r without excludes
\* or size limit has sent d/b, the file in the sibling after the unreadable
\* directory u, and nothing below u.
C12_TraversalErrorSkipped ==
    /\ [][(/\ walkerPc = "walking"
           /\ walkStack # <<>>
           /\ ~Head(walkStack).ok
           /\ walkStack' # walkStack
           /\ runResult' # "killed")
          => /\ walkStack' = Tail(walkStack)
             /\ walkerPc' = "walking"
             /\ sentLog' = sentLog
             /\ fsQueue' = fsQueue]_vars
    /\ [](walkerPc = "done" =>
             /\ FsSenders = 0
             /\ (/\ \E i \in DOMAIN RunRoots : RunRoots[i] = pR
                 /\ cfg.excludes = {}
                 /\ cfg.skip_larger_than = None)
                => /\ Append(pRD, Name(nB)) \in DOMAIN sentLog
                   /\ \A p \in DOMAIN sentLog : ~Below(Append(pR, Name(nU)), p))
\* the walker met the error of u, then sent d/b, and is done
C12_Witness ==
    /\ walkerPc = "done"
    /\ RunRoots = <<pR>>
    /\ cfg.excludes = {}
    /\ ReadDirFails(nU)
    /\ Append(pRD, Name(nB)) \in DOMAIN sentLog

\* C13: a Database::load that finds the data directory while the state file
\* is missing or does not parse returns Ok with the default state (no
\* last_scan, no threats, signature_count 0, no signatures_age), in the
\* scheduler's cycle, which goes on to compute the delay, and in scan::run,
\* which starts its pipeline from the default state.
C13_LoadDegradesToDefault ==
    /\ [][(/\ schedPc = "db"
           /\ schedPc' # "db"
           /\ schedDb'.dir_found
           /\ file.state \in {"missing", "corrupt"})
          => /\ schedDb'.result = DbOk(DefaultData)
             /\ schedDb'.result[2].last_scan = None
             /\ schedDb'.result[2].threats = EmptyThreats
             /\ schedDb'.result[2].signature_count = 0
             /\ schedDb'.result[2].signatures_age = None
             /\ schedPc' = "delay"]_vars
    /\ [][(/\ run' # run
           /\ runResult' \notin {"err_config", "err_db"}
           /\ file.state \in {"missing", "corrupt"})
          => data' = DefaultData]_vars
\* the scheduler loaded a state file that does not parse and holds the default
C13_Witness ==
    /\ schedPc = "delay"
    /\ file.state = "corrupt"
    /\ schedDb.dir_found
    /\ schedDb.result = DbOk(DefaultData)

\* C14: the step that starts a run finds no worker of an earlier run receiving
\* or scanning, no walker walking and both channels empty; the scheduler
\* starts a run only from its scan step, never while a run it started has not
\* returned; no time is slept while a run is in progress, and a run is in
\* progress only while the scheduler is inside its call of scan::run.
C14_OneRunAtATime ==
    /\ [][run' # run =>
            /\ LiveWorkers = {}
            /\ Scanning = {}
            /\ walkerPc # "walking"
            /\ fsQueue = <<>> /\ results = <<>>
            /\ runPc \in {"idle", "returned"}
            /\ schedPc = "scan" /\ schedPc' = "scanning"]_vars
    /\ [][clock' # clock => runPc \in {"idle", "returned"}]_vars
    /\ [](runPc \in {"spawning", "draining"} => schedPc = "scanning")
\* the scheduler's second run is in progress with two workers, after a first
\* run whose two workers have scanned and exited
C14_Witness ==
    /\ schedPc = "scanning"
    /\ run = 2
    /\ spawned = 2
    /\ Scanning # {}
    /\ history # <<>>

\* C15: the scheduler loop has no terminal state: schedule::run neither
\* returns nor aborts, whatever fails inside the loop.
C15_NoTerminalState == schedPc \notin {"returned", "panicked"}

\* C16: the gates are evaluated after the sleep for the computed delay and
\* before the scan: once that sleep is over and the scan is next, the policy
\* is not off and, with skip_on_battery set, no power source is discharging.
C16_GatesAfterSleep ==
    schedPc = "scan" =>
        /\ schedConf.automatic_scans # Some("off")
        /\ ~(schedConf.skip_on_battery /\ FoldDischarging(FALSE, batteries))

\* C17: every step into a skipped cycle's sleep asks for the fixed interval of
\* 24 hours from the current instant, whatever the preferred hours and
\* last_scan are, and starts no run; a policy that is off or unrecognised, a
\* discharging power source with skip_on_battery set, and a failed state load
\* each lead there; the sleep ends no earlier than its target, starts no run,
\* and is followed by the top of a new cycle.
C17_SkippedCycle ==
    /\ [][schedPc' = "skip_sleep" /\ schedPc # "skip_sleep" =>
            /\ sleepReq' = Hours(24)
            /\ target' = clock + Hours(24)
            /\ run' = run /\ runPc' = runPc]_vars
    /\ [](schedPc = "skip_sleep" => runPc \in {"idle", "returned"})
    /\ [][(schedPc = "policy" /\ schedPc' # "policy"
           /\ schedConf.automatic_scans \notin {None, Some("daily")})
          => schedPc' = "skip_sleep"]_vars
    /\ [][(schedPc = "battery" /\ schedPc' \notin {"battery", "returned"}
           /\ schedConf.skip_on_battery /\ FoldDischarging(FALSE, batteries))
          => schedPc' = "skip_sleep"]_vars
    /\ [][(schedPc = "db" /\ schedPc' # "db" /\ schedDb'.result[1] = "Err")
          => schedPc' = "skip_sleep"]_vars
    /\ [][schedPc = "skip_sleep" /\ schedPc' # "skip_sleep" =>
            /\ schedPc' = "top"
            /\ clock >= target
            /\ clock' = clock
            /\ run' = run /\ runPc' = runPc]_vars
\* a cycle skipped for an unrecognised policy value slept 24 hours and the
\* next cycle has begun, with no run started
C17_Witness ==
    /\ schedPc = "battery"
    /\ schedConf.automatic_scans = Some("weekly")
    /\ now = FirstDay + Hours(12) + Hours(24)
    /\ run = 0

\* C18: with skip_on_battery set and the power sources read, the cycle goes
\* on to the policy gate when there is no power source, is skipped when at
\* least one power source is discharging, whatever the others are, and goes
\* on when there are power sources and none is discharging; with
\* skip_on_battery unset the step goes on whatever the power sources are and
\* no failure of the battery library can end it.
C18_BatteryGate ==
    [][schedPc = "battery" /\ schedPc' # "battery" =>
         IF ~schedConf.skip_on_battery THEN schedPc' = "policy"
         ELSE schedPc' # "returned" =>
                 /\ (batteries = <<>> => schedPc' = "policy")
                 /\ ((\E i \in DOMAIN batteries : batteries[i] = "Discharging")
                        => schedPc' = "skip_sleep" /\ sleepReq' = Hours(24))
                 /\ ((/\ batteries # <<>>
                      /\ \A i \in DOMAIN batteries : batteries[i] # "Discharging")
                        => schedPc' = "policy")]_vars
\* a cycle was skipped with a discharging power source listed before a full
\* one
C18_Witness ==
    /\ schedPc = "skip_sleep"
    /\ schedConf.skip_on_battery
    /\ schedConf.automatic_scans = None
    /\ Len(batteries) = 2
    /\ batteries[1] = "Discharging" /\ batteries[2] # "Discharging"
    /\ schedDb = NotLoaded

\* the instant of the last scan the loaded state holds, for a state that
\* holds one
LoadedLastScan == stampAt[Unwrap(schedDb.result[2].last_scan)]

\* C19: without preferred hours the delay the cycle asks for is 0 when the
\* loaded state has no last_scan, 0 when now - last_scan is above 24 hours,
\* and otherwise 24 hours minus now + last_scan (0 at exactly 24 hours), so
\* that the sleep's target, and with it the start of the scan, is no earlier
\* than 24 hours after last_scan.
C19_DelayWithoutPreferredHours ==
    /\ [][(schedPc = "delay" /\ schedPc' # "delay" /\ schedConf.preferred_hours = None)
          => /\ schedPc' = "delay_sleep"
             /\ sleepReq' =
                  IF schedDb.result[2].last_scan = None THEN 0
                  ELSE IF now - LoadedLastScan > Hours(24) THEN 0
                  ELSE Hours(24) - (now - LoadedLastScan)
             /\ target' = clock + sleepReq'
             /\ (schedDb.result[2].last_scan # None
                   => target' >= LoadedLastScan + Hours(24))]_vars
    /\ [](schedPc = "scan" /\ schedConf.preferred_hours = None
             /\ schedDb.result[2].last_scan # None
           => clock >= LoadedLastScan + Hours(24))
\* the scan is next after a sleep of 23 hours that followed a last_scan one
\* hour old
C19_Witness ==
    /\ schedPc = "scan"
    /\ schedConf.preferred_hours = None
    /\ schedDb.result[2].last_scan # None
    /\ sleepReq = Hours(23)
    /\ clock = LoadedLastScan + Hours(24)

\* instant t lies inside the daily window ph (an overnight window wraps)
InWindow(ph, t) ==
    IF ph.start <= ph.end
    THEN ph.start <= TimeOfDay(t) /\ TimeOfDay(t) < ph.end
    ELSE ph.start <= TimeOfDay(t) \/ TimeOfDay(t) < ph.end

\* C20: with preferred hours (a same-day or an overnight window, start and
\* end apart), a last_scan and now - last_scan not above 24 hours, the cycle
\* asks for a delay d with until_next_start(now) <= d < until_next_end(now),
\* and the instant now + d lies inside the preferred window.
C20_DelayInsideWindow ==
    [][(/\ schedPc = "delay" /\ schedPc' # "delay"
        /\ schedConf.preferred_hours # None
        /\ Unwrap(schedConf.preferred_hours).start # Unwrap(schedConf.preferred_hours).end
        /\ schedDb.result[2].last_scan # None
        /\ now - LoadedLastScan <= Hours(24))
       => /\ schedPc' = "delay_sleep"
          /\ until_next_start(Unwrap(schedConf.preferred_hours), now) <= sleepReq'
          /\ sleepReq' < until_next_end(Unwrap(schedConf.preferred_hours), now)
          /\ InWindow(Unwrap(schedConf.preferred_hours), now + sleepReq')]_vars

\* instant t lies inside window ph by the membership test that wraps:
\* start <= t < end when start < end, t >= start or t < end when end <= start
Inside(ph, t) ==
    IF ph.start < ph.end
    THEN ph.start <= TimeOfDay(t) /\ TimeOfDay(t) < ph.end
    ELSE TimeOfDay(t) >= ph.start \/ TimeOfDay(t) < ph.end

\* C21: for a window whose start and end differ, until_next_start(t) is 0
\* exactly when t is inside the window by the wrapping membership test;
\* otherwise it is start - t when t is before start on the same day, and the
\* next day's start minus t in the remaining case.
C21_UntilNextStart ==
    call[1] = "until_next_start" /\ call[2].start # call[2].end =>
        LET ph == call[2]
            t == call[3]
        IN /\ (ret = 0 <=> Inside(ph, t))
           /\ (~Inside(ph, t) /\ TimeOfDay(t) < ph.start
                 => ret = ph.start - TimeOfDay(t))
           /\ (~Inside(ph, t) /\ TimeOfDay(t) >= ph.start
                 => ret = ph.start + Hours(24) - TimeOfDay(t))

Sleeping == schedPc \in {"skip_sleep", "delay_sleep"}

\* C23: robust_sleep fixes its target, the instant of the call plus the
\* delay, once; each thread::sleep is asked for min(600 s, target - clock)
\* with the clock read just before it, and only while that is above 0;
\* robust_sleep returns only when the clock has reached the target, and with
\* a zero or negative delay it returns without a sleep.
C23_RobustSleep ==
    /\ [](target = FirstDay + sleepReq)
    /\ [][target' = target]_vars
    /\ [][clock' # clock =>
            /\ Sleeping
            /\ target - clock > 0
            /\ asked' = (IF target - clock < 600 THEN target - clock ELSE 600)
            /\ clock' >= clock + asked']_vars
    /\ [][Sleeping /\ ~Sleeping' => clock >= target /\ clock' = clock]_vars
    /\ [](sleepReq <= 0 => clock = FirstDay /\ asked = 0)
    /\ [](~Sleeping /\ suspends = MaxSuspends /\ sleepReq >= 0 => clock = target)
\* of a delay of 70 minutes the host spent an hour suspended inside the
\* second sleep of 600 s: the clock read after it was past the target and
\* robust_sleep returned, five sleeps short
C23_Witness ==
    /\ ~Sleeping
    /\ sleepReq = 4200
    /\ asked = 600
    /\ clock = FirstDay + 600 + 600 + Hours(1)
    /\ clock > target

\* the parts of the filter, as the claims word them
DotName(name) == Len(name) > 0 /\ name[1] = "." /\ name \notin {<<".">>, <<".", ".">>}
HiddenRejects(config, e) == config.skip_hidden /\ DotName(e.path[Len(e.path)])
ExcludeRejects(config, e) == \E x \in config.excludes : PatternMatches(x, e.path)

\* C24: with skip_hidden set the filter rejects every entry whose base name
\* starts with a dot and is neither "." nor "..", and the hidden rule rejects
\* no other entry (an entry that no exclude and no ceiling applies to passes);
\* the answer is the same for every entry type and for a traversal root.
C24_SkipHidden ==
    call[1] = "matches" /\ cfg.skip_hidden =>
        LET e == call[2]
            name == e.path[Len(e.path)]
        IN /\ (name \in {<<".", ".", ".">>, <<".", "x">>} => ret = FALSE)
           /\ (DotName(name) => ret = FALSE)
           /\ (/\ ~DotName(name)
               /\ cfg.excludes = {} /\ cfg.skip_larger_than = None
               => ret = TRUE)

\* C25: with a size ceiling the filter rejects every regular file whose
\* metadata can be read and whose size is above the ceiling; a regular file at
\* or below the ceiling, a file whose metadata cannot be read and a directory
\* pass, unless the hidden rule or an exclude rejects them.
C25_SizeCeiling ==
    call[1] = "matches" /\ cfg.skip_larger_than # None =>
        LET e == call[2]
            ceiling == cfg.skip_larger_than[2]
            free == ~HiddenRejects(cfg, e) /\ ~ExcludeRejects(cfg, e)
        IN /\ (Kind(e.node) = "file" /\ ~MetadataFails(e.node) /\ Size(e.node) > ceiling
                 => ret = FALSE)
           /\ (Kind(e.node) = "file" /\ ~MetadataFails(e.node) /\ Size(e.node) <= ceiling
                /\ free => ret = TRUE)
           /\ (Kind(e.node) = "file" /\ MetadataFails(e.node) /\ free => ret = TRUE)
           /\ (Kind(e.node) = "dir" /\ free => ret = TRUE)
\* a file of exactly the ceiling's size passes
C25_Witness ==
    /\ call[1] = "matches"
    /\ cfg.skip_larger_than = Some(2)
    /\ Kind(call[2].node) = "file" /\ ~MetadataFails(call[2].node)
    /\ Size(call[2].node) = 2
    /\ ret = TRUE

\* the name is text: no byte of it is outside UTF-8
TextName(name) == \A i \in DOMAIN name : name[i] # BadByte

ExcludedDirs ==
    {x.lit : x \in {y \in cfg.excludes :
                      ~y.star /\ Kind(ResolveFrom(nTop, y.lit, FALSE)) = "dir"}}

\* C27: no path that an exclude pattern matches is ever sent to the file
\* queue, no path beneath a directory that an exclude pattern matches is ever
\* sent, and a walk of r with r/d excluded still sends r/a.
C27_ExcludedNeverSent ==
    /\ \A p \in DOMAIN sentLog :
          /\ \A x \in cfg.excludes : ~PatternMatches(x, p)
          /\ \A d \in ExcludedDirs : ~Below(d, p)
    /\ (/\ walkerPc = "done"
        /\ \E i \in DOMAIN RunRoots : RunRoots[i] = pR
        /\ cfg.skip_larger_than = None)
       => Append(pR, Name(nA)) \in DOMAIN sentLog

\* C28: the worker pool of a run is never empty: no run spawns its walker
\* with no worker spawned, and no run returns Ok, its record stamped and
\* stored, with no worker spawned.
C28_PoolNeverEmpty ==
    /\ (runPc = "draining" => spawned >= 1)
    /\ (runPc = "returned" /\ runResult = "ok" => spawned >= 1)

\* a header read as the claim reads it: the text after the 8th colon (none
\* when there are fewer), and of that the part before the first space
Colons(buf) == {i \in DOMAIN buf : buf[i] = ":"}
EighthColon(buf) ==
    CHOOSE i \in Colons(buf) : Cardinality({j \in Colons(buf) : j <= i}) = 8
NinthField(buf) ==
    LET rest == SubSeq(buf, EighthColon(buf) + 1, Len(buf))
    IN SubSeq(rest, 1, (CHOOSE i \in DOMAIN rest :
                           rest[i] = " " /\ \A j \in 1..(i - 1) : rest[j] # " ") - 1)
IsDecimal(field) == field # <<>> /\ \A i \in DOMAIN field : field[i] \in Digits
RECURSIVE DecimalValue(_)
DecimalValue(field) ==
    IF field = <<>> THEN 0
    ELSE 10 * DecimalValue(SubSeq(field, 1, Len(field) - 1))
         + DigitValue(field[Len(field)])

\* C29: parse_database_age returns an error when the header has fewer than 8
\* colons, when no space follows the 8th colon, and when the text between the
\* 8th colon and the first space after it is not a decimal number; otherwise
\* it returns the instant that number of seconds after the epoch.
C29_ParseDatabaseAge ==
    call[1] = "parse_database_age" =>
        LET header == call[2]
        IN IF Cardinality(Colons(header)) < 8 THEN ret[1] = "Err"
           ELSE IF \A i \in DOMAIN header : i > EighthColon(header) => header[i] # " "
           THEN ret[1] = "Err"
           ELSE IF ~IsDecimal(NinthField(header)) THEN ret[1] = "Err"
           ELSE ret = AgeOk(DecimalValue(NinthField(header)))

\* the walker's step in which tx.send(entry) fails: every receiver is gone
SendFails ==
    /\ walkerPc = "walking"
    /\ walkStack # <<>>
    /\ Sendable(Head(walkStack))
    /\ FsReceivers = 0
    /\ walkStack' = <<>>
    /\ runResult' # "killed"

\* C30: the step in which a send to the file queue fails ends the walk: it
\* sends nothing, and after it the walker has no entry of the current root and
\* no further root left to visit.
C30_WalkerStopsForAllRoots ==
    [][SendFails => /\ fsQueue' = fsQueue
                    /\ sentLog' = sentLog
                    /\ walkStack' = <<>>
                    /\ (walkerPc' = "done" \/ walkRoots' = <<>>)]_vars

\* C31: when two processes have each loaded the state, changed their copy and
\* stored it, the state file holds exactly the in-memory record of the process
\* that wrote last, whatever the other process stored.
C31_LastWriterWins ==
    (\A p \in Procs : procs[p].pc = "done") /\ disk.last # 0
        => file = FileOf(procs[disk.last].data)

\* the results of a scan::run that failed before it stamped last_scan
FailedRuns == {"err_config", "err_db", "err_home", "err_engine"}

\* C32: when the scheduler enters scan::run after a run that failed, time has
\* passed since that run returned: the clock is later than it was then.
C32_NoBackToBackAttempts ==
    [][(/\ schedPc = "scan"
        /\ schedPc' = "scanning"
        /\ returnedAt # None
        /\ returnedAt[2].result \in FailedRuns)
       => clock > returnedAt[2].at]_vars

\* C33: when the scheduler enters scan::run after a run that completed and
\* stamped last_scan, at least 24 hours have passed since that stamp, with
\* and without preferred hours.
C33_DailyInterval ==
    [][(/\ schedPc = "scan"
        /\ schedPc' = "scanning"
        /\ returnedAt # None
        /\ returnedAt[2].result = "ok")
       => clock >= returnedAt[2].at + interval]_vars

\* the paths the infections command took out of its record
InfRemoved == DOMAIN inf.before.data.threats \ DOMAIN inf.data.threats
\* the file of the path is gone and the file system did not refuse
InfGone(path) == path \notin inf.files.present

\* C34: in the infections command a path leaves the record only when its
\* deletion was asked for and the file is gone afterwards (a file that was
\* already absent included); a path whose deletion was declined, not asked or
\* refused keeps its entry, with its names; when the command returns Ok every
\* path asked for whose file is gone has left the record and the state file
\* holds that record; the state file is written only when a path was removed;
\* without a delete flag neither a file nor the record nor the state file
\* changes.
C34_InfectionsDelete ==
    inf.pc # "off" =>
        /\ \A path \in InfRemoved : path \in inf.requested /\ InfGone(path)
        /\ \A path \in DOMAIN inf.before.data.threats :
              path \notin inf.requested \/ ~InfGone(path)
                 => /\ path \in DOMAIN inf.data.threats
                    /\ inf.data.threats[path] = inf.before.data.threats[path]
        /\ (inf.pc = "returned" /\ inf.result = "ok" =>
               /\ \A path \in inf.requested : InfGone(path) => path \in InfRemoved
               /\ (InfRemoved # {} => file = FileOf(inf.data)))
        /\ (inf.stores > 0 \/ file # inf.before.file => InfRemoved # {})
        /\ (~inf.args.delete /\ ~inf.args.delete_all =>
               /\ inf.files.present = inf.before.present
               /\ inf.data = inf.before.data
               /\ file = inf.before.file
               /\ inf.stores = 0)
\* with --delete, one deletion was declined and one confirmed for a file that
\* was already absent: the absent file's path left the record, the other one
\* stayed, and the record was stored
C34_Witness ==
    /\ inf.pc = "returned" /\ inf.result = "ok"
    /\ inf.args.delete /\ ~inf.args.delete_all
    /\ inf.before.data = StoredBefore
    /\ pA \notin inf.before.present
    /\ inf.requested = {pA}
    /\ InfRemoved = {pA}
    /\ pRDB \in DOMAIN inf.data.threats
    /\ file = FileOf(inf.data)
    /\ inf.stores = 1

====
